---- MODULE Spec2Model ----
(***************************************************************************)
(* Loom multi-agent runtime: the spawn manager of the multi-agent server   *)
(* (pkg/server/spawn_agent.go) and the LLM-concurrency semaphore of the    *)
(* fork-join / parallel executors (SEMAPHORE-VERIFICATION.md).             *)
(*                                                                         *)
(* Every goroutine is a process with a program counter; one action is one  *)
(* atomic step of the code: a critical section under spawnedAgentsMu, one  *)
(* call to the session store or to the message bus, one channel operation. *)
(***************************************************************************)
EXTENDS Integers, Sequences, FiniteSets, TLC

(***************************************************************************)
(* Bounds of the model.                                                    *)
(***************************************************************************)
\* goroutines that call SpawnSubAgent concurrently
NumThreads == 2
\* session ids GenerateSessionID hands out in one run
MaxSessions == 2
\* the spawn limit; the source fixes it to 10 (spawn_agent.go:55, "TODO: Make
\* configurable"), the model runs the same comparison against a small limit
maxSpawnsPerParent == 1
\* branches of one fork-join execution
MaxBranches == 3
\* capacities the semaphore channel is made with
MaxCapacity == 3
\* candidates the keyword scorer hands to the gate and the reranker
MaxCandidates == 3
\* llmProvider.Chat calls the reranker issues in one run
MaxCalls == 2
\* minutes the clock runs
MaxClock == 50
\* goroutines looked at lock by lock
NumGoroutines == 3
\* the depth cap of the spawn graph; the specification's default is 4, the
\* source has no such constant, the model states the cap for a small depth
MaxSpawnDepth == 1
\* tokens of an LLM response
MaxResponseLen == 6

\* cmd_workflow.go:305-309, as quoted in SEMAPHORE-VERIFICATION.md:138
llmConcurrencyLimit == 2

Threads == 1..NumThreads

\* GenerateSessionID: the n-th id handed out; ids are never repeated
SessionName == <<"s1", "s2", "s3", "s4", "s5", "s6", "s7", "s8">>
GenerateSessionID(n) == SessionName[n]
SessionIds == {GenerateSessionID(n) : n \in 1..MaxSessions}

\* sessions created on explicit request (not spawned); they end explicitly
Roots == {"root"}

\* request inputs: the callers of a run draw their requests from the full
\* alphabet (rich) or from the part of it without workflow ids and second topics
AgentIDs == {"a"}
InitialMessages(r) == IF r THEN {"", "hello"} ELSE {""}
\* session ids a request can name that belong to no session
UnknownSessions(r) == IF r THEN {"ghost"} ELSE {}
WorkflowIDs(r) == IF r THEN {"", "wf"} ELSE {""}
TopicLists(r) == IF r THEN {<<>>, <<"t">>, <<"t", "u">>} ELSE {<<>>, <<"t">>}

\* an id that ignores the workflow
SubAgentID_NoNamespace(workflowID, agentID) == agentID

\* lines 60-64: the full sub-agent id, with the workflow prefix if provided
SubAgentID(workflowID, agentID) ==
    IF workflowID # "" THEN workflowID \o ":" \o agentID ELSE agentID

NilReq ==
    [nil |-> TRUE, ParentSessionID |-> "", AgentID |-> "", WorkflowID |-> "",
     InitialMessage |-> "", AutoSubscribe |-> <<>>]

\* a metadata map without keys (the requests of the model carry no metadata)
NoMetadata == [key \in {} |-> ""]

NoEntry ==
    [parentSessionID |-> "", subAgentID |-> "", subscriptions |-> <<>>,
     metadata |-> NoMetadata]

IdleThread ==
    [pc |-> "idle", req |-> NilReq, existingSpawns |-> 0, subAgentID |-> "",
     sessionID |-> "", subscribedTopics |-> <<>>, i |-> 0, ret |-> "none"]

\* builtin/spawn_agent.go: the result Execute returns, and the Go error next to it
NoResult ==
    [Success |-> FALSE, Code |-> "", Message |-> "", Suggestion |-> "",
     sub_agent_id |-> "", session_id |-> "", status |-> "",
     subscribed_topics |-> <<>>, err |-> "none"]

\* params["agent_id"]: missing, of another type than string, or a string
NoParam == [kind |-> "missing", value |-> ""]

\* builtin/spawn_agent.go:35-40: no SpawnSubAgentResponse
NilResponse == [SubAgentID |-> "", SessionID |-> "", Status |-> "", SubscribedTopics |-> <<>>]

\* the spawn_agent tool of one agent: handler and parentSession are the fields
\* of SpawnAgentTool, agent_id is params["agent_id"], cause and resp are what
\* the handler returned
IdleTool ==
    [pc |-> "idle", handler |-> "nil", parentSession |-> "", agent_id |-> NoParam,
     cause |-> "none", resp |-> NilResponse, result |-> NoResult]

NoCleanup == [pc |-> "none", target |-> "", spawned |-> NoEntry, k |-> 0]

VARIABLES
    spawnedAgents,   \* s.spawnedAgents: sub-session id -> spawnedAgentContext
    ctxDone,         \* sub-session ids whose cancelFunc has been called
    sessionStore,    \* saved sessions: id -> [AgentID, ParentSessionID, failing]
    idle,            \* sessions with time.Since(UpdatedAt) > 10 min right now
    busSubs,         \* the bus's subscription table
    nextSession,     \* index of the next id GenerateSessionID returns
    th,              \* SpawnSubAgent callers: pc and locals
    monitor,         \* monitorSpawnedAgent goroutine of each sub-session
    cl,              \* cleanupSpawnedAgent call in progress, per calling goroutine
    ended,           \* root sessions that have ended
    toCleanup,       \* cleanupSpawnedAgentsByParent: snapshot still to clean
    callers,         \* the goroutines that call SpawnSubAgent in this run
    rich,            \* whether the requests of this run use the full alphabet
    busMsgs,         \* the messages in the bus's queues and topic buffers
    tool             \* the SpawnAgentTool.Execute call in progress

spawnVars ==
    <<spawnedAgents, ctxDone, sessionStore, idle, busSubs, nextSession, th,
      monitor, cl, ended, toCleanup, callers, rich, busMsgs, tool>>

VARIABLES
    capacity,        \* cap(llmSemaphore), fixed when the channel is made
    llmSemaphore,    \* number of elements buffered in the channel
    branches,        \* branches of the fork-join execution (0: none running)
    bpc,             \* position of each branch goroutine
    bres,            \* how each branch's chat call ended
    cancelled,       \* the execution's context is cancelled (caller or timeout)
    opc,             \* position of the executors that do not use the semaphore
    log              \* the "acquired" and "released" debug messages, in order

orchVars == <<capacity, llmSemaphore, branches, bpc, bres, cancelled, opc, log>>

VARIABLES
    rq,              \* the recommender's input: provider, scored candidates, intent
    gate,            \* whether shouldInvokeLLMReRanker was called, and its result
    rr,              \* the reRankPatternsWithLLM call: pc, query and returned values
    llmCalls,        \* llmProvider.Chat calls issued by the reranker so far
    prev,            \* the last rerank call that returned a selection, and when
    now              \* the clock, in minutes

rrVars == <<rq, gate, rr, llmCalls, prev, now>>

VARIABLES
    lk,              \* lock-level view of the goroutines: kind, position, call
    locks            \* each lock's writer and readers

lockVars == <<lk, locks>>

VARIABLES
    penv,            \* the process environment GetLoomDataDir reads
    pret             \* the path GetLoomDataDir returned

pathVars == <<penv, pret>>

VARIABLES
    response,        \* response.Content of the reranker's chat call, as tokens
    unmarshal        \* whether json.Unmarshal was called, and the text it was given

fenceVars == <<response, unmarshal>>

\* the components the spawn manager does not touch
outside == <<orchVars, rrVars, lockVars, pathVars, fenceVars>>


(***************************************************************************)
(* The message bus, as the spawn manager uses it: Subscribe,               *)
(* GetSubscriptionsByAgent, Unsubscribe.                                   *)
(***************************************************************************)
\* Subscribe(ctx, agentID, topic, nil, 100): a new subscription under a fresh id
BusSubscribe(subs, id, agentID, topic) ==
    subs \cup {[ID |-> id, AgentID |-> agentID, Topic |-> topic]}

\* GetSubscriptionsByAgent(agentID): a snapshot of the agent's subscriptions
GetSubscriptionsByAgent(subs, agentID) == {sub \in subs : sub.AgentID = agentID}

\* Unsubscribe(ctx, id): removes the subscription; nothing to do when it is gone
BusUnsubscribe(subs, id) == {sub \in subs : sub.ID # id}

RECURSIVE BusUnsubscribeAll(_, _)
BusUnsubscribeAll(subs, ids) ==
    IF ids = {} THEN subs
    ELSE LET id == CHOOSE x \in ids : TRUE
         IN  BusUnsubscribeAll(BusUnsubscribe(subs, id), ids \ {id})

(***************************************************************************)
(* SpawnSubAgent (spawn_agent.go:20-167).                                  *)
(***************************************************************************)
\* a count of every tracked agent, whoever its parent is
countSpawnedAgentsByParent_AllParents(parentSessionID) ==
    Cardinality(DOMAIN spawnedAgents)

\* lines 169-181: how many agents a parent has spawned, under the read lock
countSpawnedAgentsByParent(parentSessionID) ==
    Cardinality({sid \in DOMAIN spawnedAgents :
                    spawnedAgents[sid].parentSessionID = parentSessionID})

\* the comparison off by one
SpawnLimitReached_OffByOne(existingSpawns) == existingSpawns > maxSpawnsPerParent

\* line 56: existingSpawns >= maxSpawnsPerParent
SpawnLimitReached(existingSpawns) == existingSpawns >= maxSpawnsPerParent

\* lines 21-31: the request's validation; "" when the request passes
ValidateRequest(req) ==
    IF req.nil THEN "err_nil_request"
    ELSE IF req.ParentSessionID = "" THEN "err_parent_required"
    ELSE IF req.AgentID = "" THEN "err_agent_required"
    ELSE ""

\* sessions whose agent can issue a spawn_agent call now: a root session that has
\* not ended, or a spawned session that is still tracked
LiveSessions == (Roots \ ended) \cup DOMAIN spawnedAgents

ValidRequests ==
    [nil : {FALSE}, ParentSessionID : LiveSessions \cup UnknownSessions(rich),
     AgentID : AgentIDs,
     WorkflowID : WorkflowIDs(rich), InitialMessage : InitialMessages(rich),
     AutoSubscribe : TopicLists(rich)]

\* one request for each way validation fails, and the valid ones
Requests ==
    {NilReq, [NilReq EXCEPT !.nil = FALSE, !.AgentID = "a"],
     [NilReq EXCEPT !.nil = FALSE, !.ParentSessionID = "root"]} \cup ValidRequests

\* calls that have passed validation and not yet drawn their session id
PendingIds == Cardinality({t \in Threads : th[t].pc \in {"limit", "load", "save"}})

others ==
    <<ctxDone, idle, monitor, cl, ended, toCleanup, callers, rich, busMsgs, tool,
      outside>>

\* lines 20-51: SpawnSubAgent is entered with a request and validates it
SpawnEnter(t, req) ==
    LET err == ValidateRequest(req) IN
    /\ err = "" => nextSession + PendingIds <= MaxSessions
    /\ th' = [th EXCEPT ![t] =
                IF err # ""
                THEN [IdleThread EXCEPT !.pc = "done", !.ret = err]
                ELSE [IdleThread EXCEPT !.pc = "limit", !.req = req]]

\* a caller enters SpawnSubAgent with a request
SpawnCall(t) ==
    /\ t \in callers
    /\ th[t].pc = "idle"
    /\ \E req \in Requests : SpawnEnter(t, req)
    /\ UNCHANGED <<spawnedAgents, sessionStore, busSubs, nextSession>>
    /\ UNCHANGED others

\* lines 53-58: count the parent's children, reject at the limit
SpawnCheckLimit(t) ==
    /\ th[t].pc = "limit"
    /\ LET existingSpawns == countSpawnedAgentsByParent(th[t].req.ParentSessionID) IN
       th' = [th EXCEPT ![t] =
                IF SpawnLimitReached(existingSpawns)
                THEN [@ EXCEPT !.pc = "done", !.existingSpawns = existingSpawns,
                               !.ret = "err_spawn_limit"]
                ELSE [@ EXCEPT !.pc = "load", !.existingSpawns = existingSpawns]]
    /\ UNCHANGED <<spawnedAgents, sessionStore, busSubs, nextSession>>
    /\ UNCHANGED others

\* lines 60-70: the sub-agent id is built, and getOrLoadAgent succeeds or fails
SpawnLoadAgent(t) ==
    /\ th[t].pc = "load"
    /\ LET subAgentID == SubAgentID(th[t].req.WorkflowID, th[t].req.AgentID) IN
       \E ok \in BOOLEAN :
          th' = [th EXCEPT ![t] =
                   IF ok THEN [@ EXCEPT !.pc = "save", !.subAgentID = subAgentID]
                   ELSE [@ EXCEPT !.pc = "done", !.subAgentID = subAgentID,
                                  !.ret = "err_load_agent"]]
    /\ UNCHANGED <<spawnedAgents, sessionStore, busSubs, nextSession>>
    /\ UNCHANGED others

\* a SaveSession that is reached after the first topic has been subscribed
SpawnSaveSession_AfterSubscribe(t) ==
    /\ th[t].pc = "save"
    /\ busSubs' = IF Len(th[t].req.AutoSubscribe) > 0
                  THEN BusSubscribe(busSubs, <<GenerateSessionID(nextSession), 1>>,
                                    th[t].subAgentID, th[t].req.AutoSubscribe[1])
                  ELSE busSubs
    /\ th' = [th EXCEPT ![t] = [@ EXCEPT !.pc = "done", !.ret = "err_save_session"]]
    /\ UNCHANGED <<spawnedAgents, sessionStore, nextSession>>
    /\ UNCHANGED others

\* lines 72-89: a new session id, and SaveSession succeeds or fails (the id of a
\* failed save is never seen again, so the counter only moves on success)
SpawnSaveSession(t) ==
    /\ th[t].pc = "save"
    /\ \E ok \in BOOLEAN :
          IF ok
          THEN LET sessionID == GenerateSessionID(nextSession) IN
               /\ sessionStore' =
                     [sid \in DOMAIN sessionStore \cup {sessionID} |->
                        IF sid = sessionID
                        THEN [AgentID |-> th[t].req.AgentID,
                              ParentSessionID |-> th[t].req.ParentSessionID,
                              failing |-> FALSE]
                        ELSE sessionStore[sid]]
               /\ nextSession' = nextSession + 1
               /\ th' = [th EXCEPT ![t] =
                           [@ EXCEPT !.sessionID = sessionID, !.i = 1,
                                     !.pc = IF Len(th[t].req.AutoSubscribe) > 0
                                            THEN "subscribe" ELSE "track"]]
          ELSE /\ th' = [th EXCEPT ![t] =
                           [@ EXCEPT !.pc = "done", !.ret = "err_save_session"]]
               /\ UNCHANGED <<sessionStore, nextSession>>
    /\ UNCHANGED <<spawnedAgents, busSubs>>
    /\ UNCHANGED others

\* a loop that records the topic whether or not Subscribe succeeded
AppendSubscribed_Always(subscribedTopics, topic, ok) ==
    Append(subscribedTopics, topic)

\* lines 96-103: on an error the loop continues, else the topic is appended
AppendSubscribed(subscribedTopics, topic, ok) ==
    IF ok THEN Append(subscribedTopics, topic) ELSE subscribedTopics

\* lines 93-109: one iteration of the auto-subscribe loop; a failing Subscribe
\* is logged and the loop continues
SpawnSubscribe(t) ==
    /\ th[t].pc = "subscribe"
    /\ LET topic == th[t].req.AutoSubscribe[th[t].i]
           subAgentID == th[t].subAgentID
           last == th[t].i = Len(th[t].req.AutoSubscribe)
       IN  \E ok \in BOOLEAN :
             /\ busSubs' = IF ok
                           THEN BusSubscribe(busSubs, <<th[t].sessionID, th[t].i>>,
                                             subAgentID, topic)
                           ELSE busSubs
             /\ th' = [th EXCEPT ![t] =
                         [@ EXCEPT !.subscribedTopics =
                                       AppendSubscribed(@, topic, ok),
                                   !.i = @ + 1,
                                   !.pc = IF last THEN "track" ELSE "subscribe"]]
    /\ UNCHANGED <<spawnedAgents, sessionStore, nextSession>>
    /\ UNCHANGED others

\* lines 111-130: the child's context, and its entry under the write lock
SpawnTrack(t) ==
    /\ th[t].pc = "track"
    /\ spawnedAgents' =
          [sid \in DOMAIN spawnedAgents \cup {th[t].sessionID} |->
             IF sid = th[t].sessionID
             THEN [parentSessionID |-> th[t].req.ParentSessionID,
                   subAgentID |-> th[t].subAgentID,
                   subscriptions |-> th[t].subscribedTopics,
                   metadata |-> NoMetadata]
             ELSE spawnedAgents[sid]]
    /\ th' = [th EXCEPT ![t].pc = "monitor"]
    /\ UNCHANGED <<sessionStore, busSubs, nextSession>>
    /\ UNCHANGED others

\* an initial message that is published to the child on the bus
DispatchInitialMessage_Published(msgs, subAgentID, initialMessage) ==
    IF initialMessage # ""
    THEN Append(msgs, [to |-> subAgentID, text |-> initialMessage])
    ELSE msgs

\* lines 137-139: "TODO: Send initial message if provided / For now, parent must
\* send initial message via send_message or publish": nothing is sent
DispatchInitialMessage(msgs, subAgentID, initialMessage) == msgs

\* lines 140-144: the initial message is kept under "initial_message"
StoreInitialMessage(metadata, initialMessage) ==
    IF initialMessage # ""
    THEN [key \in DOMAIN metadata \cup {"initial_message"} |->
            IF key = "initial_message" THEN initialMessage ELSE metadata[key]]
    ELSE metadata

\* lines 137-166: the initial message, go s.monitorSpawnedAgent(subCtx,
\* sessionID), and the response; the metadata map is the one of the context
\* built at lines 114-126, whether or not the table still holds it
SpawnStartMonitor(t) ==
    /\ th[t].pc = "monitor"
    /\ spawnedAgents' =
          [sid \in DOMAIN spawnedAgents |->
             IF sid = th[t].sessionID
             THEN [spawnedAgents[sid] EXCEPT
                      !.metadata = StoreInitialMessage(@, th[t].req.InitialMessage)]
             ELSE spawnedAgents[sid]]
    /\ busMsgs' = DispatchInitialMessage(busMsgs, th[t].subAgentID,
                                         th[t].req.InitialMessage)
    /\ monitor' = [monitor EXCEPT ![th[t].sessionID] = "select"]
    /\ th' = [th EXCEPT ![t] = [@ EXCEPT !.pc = "done", !.ret = "spawned"]]
    /\ UNCHANGED <<ctxDone, sessionStore, idle, busSubs, nextSession,
                   cl, ended, toCleanup, callers, rich, tool, outside>>

\* the call has returned; the caller is free for its next call
SpawnReturn(t) ==
    /\ th[t].pc = "done"
    /\ th' = [th EXCEPT ![t] = IdleThread]
    /\ UNCHANGED <<spawnedAgents, sessionStore, busSubs, nextSession>>
    /\ UNCHANGED others


(***************************************************************************)
(* cleanupSpawnedAgent (spawn_agent.go:224-269), run by the goroutine c:   *)
(* the monitor of sub-session c, or cleanupSpawnedAgentsByParent(c).       *)
(***************************************************************************)
Cleaners == SessionIds \cup Roots

\* the loop body without its Unsubscribe call
UnsubscribeTopic_Skipped(subs, subAgentID, topic) == subs

\* lines 254-262, for one recorded topic: the subscriptions of the agent on the
\* topic, taken from GetSubscriptionsByAgent's snapshot, are unsubscribed by id
UnsubscribeTopic(subs, subAgentID, topic) ==
    BusUnsubscribeAll(subs,
        {sub.ID : sub \in {x \in GetSubscriptionsByAgent(subs, subAgentID) :
                              x.Topic = topic}})

\* a lookup that finds the entry and leaves it in the table
CleanupLookup_NoDelete(c) ==
    /\ cl[c].pc = "lookup"
    /\ LET sessionID == cl[c].target IN
       IF sessionID \notin DOMAIN spawnedAgents
       THEN cl' = [cl EXCEPT ![c] = [NoCleanup EXCEPT !.pc = "ret"]]
       ELSE cl' = [cl EXCEPT ![c] =
                     [@ EXCEPT !.pc = "cancel", !.spawned = spawnedAgents[sessionID]]]
    /\ UNCHANGED <<spawnedAgents, ctxDone, sessionStore, idle, busSubs, nextSession,
                   th, monitor, ended, toCleanup, callers, rich, busMsgs, tool,
                   outside>>

\* lines 226-233: under the write lock, look the entry up and delete it
CleanupLookup(c) ==
    /\ cl[c].pc = "lookup"
    /\ LET sessionID == cl[c].target IN
       IF sessionID \notin DOMAIN spawnedAgents
       THEN /\ cl' = [cl EXCEPT ![c] = [NoCleanup EXCEPT !.pc = "ret"]]
            /\ UNCHANGED spawnedAgents
       ELSE /\ cl' = [cl EXCEPT ![c] =
                        [@ EXCEPT !.pc = "cancel", !.spawned = spawnedAgents[sessionID]]]
            /\ spawnedAgents' =
                  [sid \in DOMAIN spawnedAgents \ {sessionID} |-> spawnedAgents[sid]]
    /\ UNCHANGED <<ctxDone, sessionStore, idle, busSubs, nextSession, th, monitor,
                   ended, toCleanup, callers, rich, busMsgs, tool,
                   outside>>

\* a cleanup that does not call cancelFunc
CleanupCancel_NoCancel(c) ==
    /\ cl[c].pc = "cancel"
    /\ cl' = [cl EXCEPT ![c] =
                IF Len(cl[c].spawned.subscriptions) > 0
                THEN [@ EXCEPT !.k = 1, !.pc = "unsub"]
                ELSE [@ EXCEPT !.pc = "ret"]]
    /\ UNCHANGED <<spawnedAgents, ctxDone, sessionStore, idle, busSubs, nextSession,
                   th, monitor, ended, toCleanup, callers, rich, busMsgs, tool,
                   outside>>

\* lines 245-248: spawned.cancelFunc()
CleanupCancel(c) ==
    /\ cl[c].pc = "cancel"
    /\ ctxDone' = ctxDone \cup {cl[c].target}
    /\ cl' = [cl EXCEPT ![c] =
                IF Len(cl[c].spawned.subscriptions) > 0
                THEN [@ EXCEPT !.k = 1, !.pc = "unsub"]
                ELSE [@ EXCEPT !.pc = "ret"]]
    /\ UNCHANGED <<spawnedAgents, sessionStore, idle, busSubs, nextSession, th,
                   monitor, ended, toCleanup, callers, rich, busMsgs, tool,
                   outside>>

\* lines 250-264: one iteration of the loop over the recorded topics
CleanupUnsubscribe(c) ==
    /\ cl[c].pc = "unsub"
    /\ LET spawned == cl[c].spawned
           topic == spawned.subscriptions[cl[c].k]
       IN  busSubs' = UnsubscribeTopic(busSubs, spawned.subAgentID, topic)
    /\ cl' = [cl EXCEPT ![c] =
                IF cl[c].k = Len(cl[c].spawned.subscriptions)
                THEN [@ EXCEPT !.k = 0, !.pc = "ret"]
                ELSE [@ EXCEPT !.k = @ + 1]]
    /\ UNCHANGED <<spawnedAgents, ctxDone, sessionStore, idle, nextSession, th,
                   monitor, ended, toCleanup, callers, rich, busMsgs, tool,
                   outside>>

(***************************************************************************)
(* monitorSpawnedAgent (spawn_agent.go:183-222).                           *)
(***************************************************************************)
\* an idle test that every loaded session passes
SessionExpired_Always(sessionID) == TRUE

\* line 213: time.Since(session.UpdatedAt) > 10*time.Minute
SessionExpired(sessionID) == sessionID \in idle

\* line 204: what LoadSession can return at a tick: the session (TRUE) or an
\* error (FALSE); only errors while the store keeps failing for the session
LoadResults(sessionID) ==
    IF sessionStore[sessionID].failing THEN {FALSE} ELSE {TRUE, FALSE}

\* lines 195-200: case <-ctx.Done()
MonitorCtxDone(sid) ==
    /\ monitor[sid] = "select"
    /\ sid \in ctxDone
    /\ monitor' = [monitor EXCEPT ![sid] = "cleanup"]
    /\ cl' = [cl EXCEPT ![sid] = [NoCleanup EXCEPT !.pc = "lookup", !.target = sid]]
    /\ UNCHANGED <<spawnedAgents, ctxDone, sessionStore, idle, busSubs, nextSession,
                   th, ended, toCleanup, callers, rich, busMsgs, tool,
                   outside>>

\* lines 202-219: case <-ticker.C: LoadSession fails (continue), or the session
\* is loaded and is cleaned up when it has expired
MonitorTick(sid) ==
    /\ monitor[sid] = "select"
    /\ \E loaded \in LoadResults(sid) :
          IF loaded /\ SessionExpired(sid)
          THEN /\ monitor' = [monitor EXCEPT ![sid] = "cleanup"]
               /\ cl' = [cl EXCEPT ![sid] =
                           [NoCleanup EXCEPT !.pc = "lookup", !.target = sid]]
          ELSE UNCHANGED <<monitor, cl>>
    /\ UNCHANGED <<spawnedAgents, ctxDone, sessionStore, idle, busSubs, nextSession,
                   th, ended, toCleanup, callers, rich, busMsgs, tool,
                   outside>>

\* lines 200, 218: cleanupSpawnedAgent has returned; the monitor returns
MonitorReturn(sid) ==
    /\ monitor[sid] = "cleanup"
    /\ cl[sid].pc = "ret"
    /\ monitor' = [monitor EXCEPT ![sid] = "done"]
    /\ cl' = [cl EXCEPT ![sid] = NoCleanup]
    /\ UNCHANGED <<spawnedAgents, ctxDone, sessionStore, idle, busSubs, nextSession,
                   th, ended, toCleanup, callers, rich, busMsgs, tool,
                   outside>>

(***************************************************************************)
(* cleanupSpawnedAgentsByParent (spawn_agent.go:271-296), invoked when the *)
(* parent session ends.                                                    *)
(***************************************************************************)
\* lines 273-280: under the lock, the ids of the parent's children
ChildrenSnapshot(parentSessionID) ==
    {sid \in DOMAIN spawnedAgents :
        spawnedAgents[sid].parentSessionID = parentSessionID}

\* the parent session ends: the snapshot is taken
ParentEnds(p) ==
    /\ p \in Roots \ ended
    /\ ended' = ended \cup {p}
    /\ toCleanup' = [toCleanup EXCEPT ![p] = ChildrenSnapshot(p)]
    /\ UNCHANGED <<spawnedAgents, ctxDone, sessionStore, idle, busSubs, nextSession,
                   th, monitor, cl, callers, rich, busMsgs, tool,
                   outside>>

\* lines 292-294: the loop calls cleanupSpawnedAgent for the next snapshot entry
ParentCleanupNext(p) ==
    /\ p \in ended
    /\ cl[p].pc \in {"none", "ret"}
    /\ toCleanup[p] # {}
    /\ \E sid \in toCleanup[p] :
          /\ toCleanup' = [toCleanup EXCEPT ![p] = @ \ {sid}]
          /\ cl' = [cl EXCEPT ![p] = [NoCleanup EXCEPT !.pc = "lookup", !.target = sid]]
    /\ UNCHANGED <<spawnedAgents, ctxDone, sessionStore, idle, busSubs, nextSession,
                   th, monitor, ended, callers, rich, busMsgs, tool,
                   outside>>

\* line 296: the last cleanupSpawnedAgent has returned, and so does the loop
ParentCleanupReturn(p) ==
    /\ p \in ended
    /\ cl[p].pc = "ret"
    /\ toCleanup[p] = {}
    /\ cl' = [cl EXCEPT ![p] = NoCleanup]
    /\ UNCHANGED <<spawnedAgents, ctxDone, sessionStore, idle, busSubs, nextSession,
                   th, monitor, ended, toCleanup, callers, rich, busMsgs, tool,
                   outside>>

(***************************************************************************)
(* The sessions' activity, seen through UpdatedAt.                         *)
(***************************************************************************)
\* ten minutes pass without a turn on the session (UpdatedAt is read only by
\* the session's monitor, at its ticks)
SessionGoesIdle(sid) ==
    /\ monitor[sid] = "select"
    /\ sid \notin idle
    /\ idle' = idle \cup {sid}
    /\ UNCHANGED <<spawnedAgents, ctxDone, sessionStore, busSubs, nextSession, th,
                   monitor, cl, ended, toCleanup, callers, rich, busMsgs, tool,
                   outside>>

\* a message turn updates the session
SessionActivity(sid) ==
    /\ monitor[sid] = "select"
    /\ sid \in idle
    /\ idle' = idle \ {sid}
    /\ UNCHANGED <<spawnedAgents, ctxDone, sessionStore, busSubs, nextSession, th,
                   monitor, cl, ended, toCleanup, callers, rich, busMsgs, tool,
                   outside>>

\* the session store starts to answer LoadSession for the session with an
\* error, and keeps doing so
StoreStartsFailing(sid) ==
    /\ monitor[sid] = "select"
    /\ ~sessionStore[sid].failing
    /\ sessionStore' = [sessionStore EXCEPT ![sid].failing = TRUE]
    /\ UNCHANGED <<spawnedAgents, ctxDone, idle, busSubs, nextSession, th,
                   monitor, cl, ended, toCleanup, callers, rich, busMsgs, tool,
                   outside>>

(***************************************************************************)
(* The spawn manager's specification.                                      *)
(***************************************************************************)
SpawnInit ==
    /\ spawnedAgents = [sid \in {} |-> NoEntry]
    /\ ctxDone = {}
    /\ sessionStore = [sid \in {} |-> [AgentID |-> "", ParentSessionID |-> "",
                                      failing |-> FALSE]]
    /\ idle = {}
    /\ busSubs = {}
    /\ nextSession = 1
    /\ th = [t \in Threads |-> IdleThread]
    /\ monitor = [sid \in SessionIds |-> "none"]
    /\ cl = [c \in Cleaners |-> NoCleanup]
    /\ ended = {}
    /\ toCleanup = [p \in Roots |-> {}]
    /\ busMsgs = <<>>
    /\ tool = IdleTool

\* the goroutines of the lock-level view, and the locks they take
Goroutines == 1..NumGoroutines
LockNames == {"spawnedAgentsMu", "mu", "sessionStore", "messageBus"}
FreeLock == [writer |-> 0, readers |-> {}]
IdleGoroutine == [kind |-> "none", i |-> 0, found |-> FALSE]

\* no goroutine is looked at lock by lock
LockIdle ==
    /\ lk = [g \in Goroutines |-> IdleGoroutine]
    /\ locks = [l \in LockNames |-> FreeLock]

\* an environment: LOOM_DATA_DIR, and what os.UserHomeDir and os.Getwd return
NoPath == <<>>
NoEnv == [LOOM_DATA_DIR |-> NoPath, home |-> NoPath, cwd |-> NoPath]

\* GetLoomDataDir is not called
PathIdle ==
    /\ penv = NoEnv
    /\ pret = [called |-> FALSE, path |-> NoPath]

\* no LLM response is being parsed
NoText == <<>>
FenceIdle ==
    /\ response = NoText
    /\ unmarshal = [called |-> FALSE, text |-> NoText]

\* the values reRankPatternsWithLLM returns: name, confidence, error
NoReturn == [name |-> "", confidence |-> 0, err |-> "none"]

NoGate == [called |-> FALSE, result |-> FALSE]

\* an LLM response: a chat error, text that is not JSON, or a JSON object
NoResponse == [kind |-> "none", selected |-> "", confidence |-> 0]

IdleRerank == [pc |-> "idle", query |-> "", resp |-> NoResponse, ret |-> NoReturn]

NoPrev == [query |-> "", at |-> 0, name |-> ""]

\* the recommender is not asked
RerankIdle ==
    /\ rq = [llmProvider |-> "nil", candidates |-> <<>>, intent |-> "Unknown"]
    /\ gate = NoGate
    /\ rr = IdleRerank
    /\ llmCalls = 0
    /\ prev = NoPrev
    /\ now = 0

\* no workflow is executed
OrchIdle ==
    /\ capacity = llmConcurrencyLimit
    /\ llmSemaphore = 0
    /\ branches = 0
    /\ bpc = [b \in 1..MaxBranches |-> "none"]
    /\ bres = [b \in 1..MaxBranches |-> "none"]
    /\ cancelled = FALSE
    /\ opc = [e \in {"pipeline", "debate", "swarm"} |-> "idle"]
    /\ log = <<>>

\* concurrent callers
Init ==
    /\ SpawnInit
    /\ FenceIdle
    /\ LockIdle
    /\ PathIdle
    /\ callers = Threads
    /\ rich = FALSE
    /\ OrchIdle
    /\ RerankIdle

SpawnStep(t) ==
    \/ SpawnCall(t)
    \/ SpawnCheckLimit(t)
    \/ SpawnLoadAgent(t)
    \/ SpawnSaveSession(t)
    \/ SpawnSubscribe(t)
    \/ SpawnTrack(t)
    \/ SpawnStartMonitor(t)
    \/ SpawnReturn(t)

CleanupStep(c) ==
    \/ CleanupLookup(c)
    \/ CleanupCancel(c)
    \/ CleanupUnsubscribe(c)

MonitorStep(sid) ==
    \/ MonitorCtxDone(sid)
    \/ MonitorTick(sid)
    \/ MonitorReturn(sid)

ParentStep(p) ==
    \/ ParentCleanupNext(p)
    \/ ParentCleanupReturn(p)

Next ==
    \/ \E t \in Threads : SpawnStep(t)
    \/ \E c \in Cleaners : CleanupStep(c)
    \/ \E sid \in SessionIds : MonitorStep(sid)
    \/ \E p \in Roots : ParentEnds(p)
    \/ \E p \in Roots : ParentStep(p)
    \/ \E sid \in SessionIds : SessionGoesIdle(sid)
    \/ \E sid \in SessionIds : SessionActivity(sid)

vars == <<spawnVars, orchVars, rrVars, lockVars, pathVars, fenceVars>>

Spec == Init /\ [][Next]_vars

\* The goroutines that exist keep running: a call that has entered
\* SpawnSubAgent, a cleanup, a monitor and the parent's cleanup loop each take
\* their next step.  Nothing is assumed of the callers (SpawnCall), of a
\* parent's end, or of the sessions' activity.
SpawnProgress(t) ==
    \/ SpawnCheckLimit(t)
    \/ SpawnLoadAgent(t)
    \/ SpawnSaveSession(t)
    \/ SpawnSubscribe(t)
    \/ SpawnTrack(t)
    \/ SpawnStartMonitor(t)
    \/ SpawnReturn(t)

Fairness ==
    /\ \A t \in Threads : WF_vars(SpawnProgress(t))
    /\ \A c \in Cleaners : WF_vars(CleanupStep(c))
    /\ \A sid \in SessionIds : WF_vars(MonitorStep(sid))
    /\ \A p \in Roots : WF_vars(ParentStep(p))

FairSpec == Init /\ [][Next]_vars /\ Fairness

\* One caller, and a session store that can fail.
StoreInit ==
    /\ SpawnInit
    /\ FenceIdle
    /\ LockIdle
    /\ PathIdle
    /\ callers = {1}
    /\ rich = FALSE
    /\ OrchIdle
    /\ RerankIdle

StoreNext ==
    \/ Next
    \/ \E sid \in SessionIds : StoreStartsFailing(sid)

SpecStore == StoreInit /\ [][StoreNext]_vars

FairSpecStore == StoreInit /\ [][StoreNext]_vars /\ Fairness

\* One caller, calls one after the other, the full request alphabet, and no
\* cleanup: no parent ends and no session expires.
SeqInit ==
    /\ SpawnInit
    /\ FenceIdle
    /\ LockIdle
    /\ PathIdle
    /\ callers = {1}
    /\ rich = TRUE
    /\ OrchIdle
    /\ RerankIdle

SeqNext ==
    \/ \E t \in Threads : SpawnStep(t)
    \/ \E sid \in SessionIds : MonitorTick(sid)

SpecSeq == SeqInit /\ [][SeqNext]_vars


(***************************************************************************)
(* SpawnAgentTool.Execute (builtin/spawn_agent.go:111-218), with the        *)
(* multi-agent server as its handler.                                      *)
(***************************************************************************)
Handlers == {"nil", "server"}

AgentIdParams ==
    {NoParam, [kind |-> "number", value |-> ""], [kind |-> "string", value |-> ""]}
       \cup {[kind |-> "string", value |-> agentID] : agentID \in AgentIDs}

\* the goroutine of the agent that uses the tool
ToolThread == 1

\* server/spawn_agent.go:23-84: the text of the error SpawnSubAgent returns
ErrorText(err) ==
    CASE err = "err_nil_request" -> "spawn request cannot be nil"
      [] err = "err_parent_required" -> "parent session ID is required"
      [] err = "err_agent_required" -> "agent ID is required"
      [] err = "err_spawn_limit" -> "spawn limit reached"
      [] err = "err_load_agent" -> "failed to load agent"
      [] err = "err_save_session" -> "failed to create session"

\* lines 116-124
ExecuteNoHandler ==
    [NoResult EXCEPT !.Success = FALSE, !.Code = "SPAWN_NOT_AVAILABLE",
                     !.Message = "Agent spawning not configured for this server",
                     !.Suggestion = "spawn_agent requires MultiAgentServer with agent registry",
                     !.err = "nil"]

\* lines 130-138
ExecuteInvalidAgentId ==
    [NoResult EXCEPT !.Success = FALSE, !.Code = "INVALID_AGENT_ID",
                     !.Message = "agent_id must be a non-empty string",
                     !.Suggestion = "Provide agent_id like 'fighter' or 'analyst'",
                     !.err = "nil"]

\* the handler's error handed on as Execute's Go error, without a result
ExecuteHandlerError_Propagated(err) == [NoResult EXCEPT !.err = err]

\* lines 186-197: every error of the handler becomes the same structured error
ExecuteHandlerError(err) ==
    [NoResult EXCEPT !.Success = FALSE, !.Code = "SPAWN_FAILED",
                     !.Message = "Failed to spawn agent: " \o ErrorText(err),
                     !.Suggestion = "Check if agent config exists and server has capacity",
                     !.err = "nil"]

\* lines 200-217
ExecuteSuccess(resp) ==
    [NoResult EXCEPT !.Success = TRUE, !.sub_agent_id = resp.SubAgentID,
                     !.session_id = resp.SessionID, !.status = resp.Status,
                     !.subscribed_topics = resp.SubscribedTopics, !.err = "nil"]

\* server/spawn_agent.go:153-159: the response of a successful SpawnSubAgent
SpawnResponse(t) ==
    [SubAgentID |-> th[t].subAgentID, SessionID |-> th[t].sessionID,
     Status |-> "spawned", SubscribedTopics |-> th[t].subscribedTopics]

\* a check that lets the empty string pass
AgentIdOk_AnyString(agentID) == agentID.kind = "string"

\* lines 128-129: agentID, ok := params["agent_id"].(string); ok && agentID != ""
AgentIdOk(agentID) == agentID.kind = "string" /\ agentID.value # ""

\* lines 111-185: Execute checks the handler and agent_id, builds the request
\* and calls the handler
ToolExecute ==
    /\ tool.pc \in {"idle", "done"}
    /\ th[ToolThread].pc = "idle"
    /\ \E handler \in Handlers, parentSession \in LiveSessions \cup {""},
          agentID \in AgentIdParams, workflowID \in WorkflowIDs(rich),
          initialMessage \in InitialMessages(rich), autoSubscribe \in TopicLists(rich) :
          LET call == [IdleTool EXCEPT !.handler = handler,
                                       !.parentSession = parentSession,
                                       !.agent_id = agentID]
          IN  IF handler = "nil"
              THEN /\ tool' = [call EXCEPT !.pc = "done", !.result = ExecuteNoHandler]
                   /\ UNCHANGED th
              ELSE IF ~AgentIdOk(agentID)
              THEN /\ tool' = [call EXCEPT !.pc = "done",
                                           !.result = ExecuteInvalidAgentId]
                   /\ UNCHANGED th
              ELSE /\ tool' = [call EXCEPT !.pc = "calling"]
                   /\ SpawnEnter(ToolThread,
                         [nil |-> FALSE, ParentSessionID |-> parentSession,
                          AgentID |-> agentID.value, WorkflowID |-> workflowID,
                          InitialMessage |-> initialMessage,
                          AutoSubscribe |-> autoSubscribe])
    /\ UNCHANGED <<spawnedAgents, ctxDone, sessionStore, idle, busSubs, nextSession,
                   monitor, cl, ended, toCleanup, callers, rich, busMsgs, outside>>

\* lines 185-218: the handler has returned, and Execute returns its result
ToolHandlerReturns ==
    /\ tool.pc = "calling"
    /\ th[ToolThread].pc = "done"
    /\ LET err == th[ToolThread].ret IN
       tool' = IF err = "spawned"
               THEN [tool EXCEPT !.pc = "done", !.cause = err,
                                 !.resp = SpawnResponse(ToolThread),
                                 !.result = ExecuteSuccess(SpawnResponse(ToolThread))]
               ELSE [tool EXCEPT !.pc = "done", !.cause = err,
                                 !.result = ExecuteHandlerError(err)]
    /\ th' = [th EXCEPT ![ToolThread] = IdleThread]
    /\ UNCHANGED <<spawnedAgents, ctxDone, sessionStore, idle, busSubs, nextSession,
                   monitor, cl, ended, toCleanup, callers, rich, busMsgs, outside>>

\* The agent of a live session uses its tool again and again; nothing else
\* calls SpawnSubAgent, no parent ends and no session expires.
ToolInit ==
    /\ SpawnInit
    /\ FenceIdle
    /\ LockIdle
    /\ PathIdle
    /\ callers = {}
    /\ rich = TRUE
    /\ OrchIdle
    /\ RerankIdle

ToolNext ==
    \/ ToolExecute
    \/ SpawnCheckLimit(ToolThread)
    \/ SpawnLoadAgent(ToolThread)
    \/ SpawnSaveSession(ToolThread)
    \/ SpawnSubscribe(ToolThread)
    \/ SpawnTrack(ToolThread)
    \/ SpawnStartMonitor(ToolThread)
    \/ ToolHandlerReturns

SpecTool == ToolInit /\ [][ToolNext]_vars

(***************************************************************************)
(* The locks of the spawn manager.  A goroutine is seen as the sequence of *)
(* lock operations and of calls to the session store and to the bus that   *)
(* its function performs, in program order.  The store and the bus are     *)
(* synchronised inside: a call enters the callee's own lock and leaves it. *)
(***************************************************************************)
Op(op, on) == [op |-> op, on |-> on]

\* a call to the session store or to the bus
CalleeCall(callee) == <<Op("Enter", callee), Op("Leave", callee)>>

\* SpawnSubAgent: s.mu (34-38), countSpawnedAgentsByParent (54, 171-172),
\* SaveSession (83), Subscribe (95), the insert (128-130)
SpawnOps ==
    <<Op("RLock", "mu"), Op("RUnlock", "mu"),
      Op("RLock", "spawnedAgentsMu"), Op("RUnlock", "spawnedAgentsMu")>>
       \o CalleeCall("sessionStore") \o CalleeCall("messageBus")
       \o <<Op("Lock", "spawnedAgentsMu"), Op("Unlock", "spawnedAgentsMu")>>

\* a cleanup that unlocks only after its bus calls
CleanupOps_UnlockAfterUnsubscribe ==
    <<Op("Lock", "spawnedAgentsMu"), Op("ReturnIfAbsent", "spawnedAgentsMu")>>
       \o CalleeCall("messageBus") \o CalleeCall("messageBus")
       \o <<Op("Unlock", "spawnedAgentsMu")>>

\* cleanupSpawnedAgent: Lock (226), Unlock on either branch (229, 233), return
\* when the entry is absent (230), GetSubscriptionsByAgent (254), Unsubscribe (257)
CleanupOps ==
    <<Op("Lock", "spawnedAgentsMu"), Op("Unlock", "spawnedAgentsMu"),
      Op("ReturnIfAbsent", "spawnedAgentsMu")>>
       \o CalleeCall("messageBus") \o CalleeCall("messageBus")

\* monitorSpawnedAgent: LoadSession (204), cleanupSpawnedAgent (217)
MonitorOps == CalleeCall("sessionStore") \o CleanupOps

\* cleanupSpawnedAgentsByParent: the snapshot (273-280), cleanupSpawnedAgent (293)
CleanupByParentOps ==
    <<Op("Lock", "spawnedAgentsMu"), Op("Unlock", "spawnedAgentsMu")>> \o CleanupOps

GoroutineKinds == {"spawn", "monitor", "cleanupByParent"}

Program(kind) ==
    CASE kind = "spawn" -> SpawnOps
      [] kind = "monitor" -> MonitorOps
      [] kind = "cleanupByParent" -> CleanupByParentOps
      [] kind = "none" -> <<>>

Running(g) == lk[g].kind # "none" /\ lk[g].i <= Len(Program(lk[g].kind))

\* the operation the goroutine is at
NextOp(g) == Program(lk[g].kind)[lk[g].i]

\* the locks a goroutine holds
Held(g) == {l \in LockNames : locks[l].writer = g \/ g \in locks[l].readers}

\* sync.RWMutex: Lock waits for the writer and the readers, RLock for the writer
CanStep(g) ==
    /\ Running(g)
    /\ NextOp(g).op \in {"Lock", "Enter"} =>
          locks[NextOp(g).on].writer = 0 /\ locks[NextOp(g).on].readers = {}
    /\ NextOp(g).op = "RLock" => locks[NextOp(g).on].writer = 0

Advance(g) == lk' = [lk EXCEPT ![g].i = @ + 1]

\* a goroutine starts one of the functions
GoStart(g) ==
    /\ lk[g].kind = "none"
    /\ \E kind \in GoroutineKinds : lk' = [lk EXCEPT ![g] = [@ EXCEPT !.kind = kind, !.i = 1]]
    /\ UNCHANGED <<locks, spawnVars, orchVars, rrVars, pathVars, fenceVars>>

GoLock(g) ==
    /\ CanStep(g)
    /\ NextOp(g).op \in {"Lock", "Enter"}
    /\ locks' = [locks EXCEPT ![NextOp(g).on].writer = g]
    /\ Advance(g)
    /\ UNCHANGED <<spawnVars, orchVars, rrVars, pathVars, fenceVars>>

GoUnlock(g) ==
    /\ CanStep(g)
    /\ NextOp(g).op \in {"Unlock", "Leave"}
    /\ locks' = [locks EXCEPT ![NextOp(g).on].writer = 0]
    /\ Advance(g)
    /\ UNCHANGED <<spawnVars, orchVars, rrVars, pathVars, fenceVars>>

GoRLock(g) ==
    /\ CanStep(g)
    /\ NextOp(g).op = "RLock"
    /\ locks' = [locks EXCEPT ![NextOp(g).on].readers = @ \cup {g}]
    /\ Advance(g)
    /\ UNCHANGED <<spawnVars, orchVars, rrVars, pathVars, fenceVars>>

GoRUnlock(g) ==
    /\ CanStep(g)
    /\ NextOp(g).op = "RUnlock"
    /\ locks' = [locks EXCEPT ![NextOp(g).on].readers = @ \ {g}]
    /\ Advance(g)
    /\ UNCHANGED <<spawnVars, orchVars, rrVars, pathVars, fenceVars>>

\* lines 227-231: the entry is there or not; without it the function returns
GoReturnIfAbsent(g) ==
    /\ CanStep(g)
    /\ NextOp(g).op = "ReturnIfAbsent"
    /\ \E exists \in BOOLEAN :
          lk' = [lk EXCEPT ![g] =
                   IF exists THEN [@ EXCEPT !.i = @ + 1, !.found = TRUE]
                   ELSE [@ EXCEPT !.i = Len(Program(lk[g].kind)) + 1]]
    /\ UNCHANGED <<locks, spawnVars, orchVars, rrVars, pathVars, fenceVars>>

LockInit ==
    /\ SpawnInit
    /\ FenceIdle
    /\ LockIdle
    /\ PathIdle
    /\ callers = {}
    /\ rich = FALSE
    /\ OrchIdle
    /\ RerankIdle

GoStep(g) ==
    \/ GoStart(g)
    \/ GoLock(g)
    \/ GoUnlock(g)
    \/ GoRLock(g)
    \/ GoRUnlock(g)
    \/ GoReturnIfAbsent(g)

LockNext == \E g \in Goroutines : GoStep(g)

SpecLock == LockInit /\ [][LockNext]_vars

(***************************************************************************)
(* GetLoomDataDir (pkg/config/paths.go).  A path is the sequence of its    *)
(* separators "/" and names; NoPath is the empty string, which os.Getenv   *)
(* returns for an unset variable, and stands for the error of              *)
(* os.UserHomeDir and os.Getwd.                                            *)
(***************************************************************************)
DataDirs ==
    {NoPath, <<"/", "custom", "/", "loom">>, <<"/", "custom", "/">>, <<"/">>,
     <<"relative", "/", "path">>, <<"relative">>, <<".", "/", "relative">>,
     <<"~", "/", "my-loom">>, <<"~", "/">>, <<"~">>}

HomeDirs == {NoPath, <<"/", "home", "user">>, <<"/", "root">>}

WorkDirs == {NoPath, <<"/", "current", "/", "dir">>, <<"/">>}

\* filepath.IsAbs
IsAbs(path) == path # <<>> /\ Head(path) = "/"

\* strings.HasPrefix(path, "~/")
HasTildePrefix(path) == Len(path) >= 2 /\ path[1] = "~" /\ path[2] = "/"

\* the names of a path, without the separators and the "." elements
RECURSIVE Names(_)
Names(path) ==
    IF path = <<>> THEN <<>>
    ELSE IF Head(path) \in {"/", "."} THEN Names(Tail(path))
    ELSE <<Head(path)>> \o Names(Tail(path))

RECURSIVE JoinNames(_)
JoinNames(names) ==
    IF Len(names) <= 1 THEN names
    ELSE <<Head(names), "/">> \o JoinNames(Tail(names))

\* filepath.Clean, for paths without ".." elements
Clean(path) ==
    IF IsAbs(path) THEN <<"/">> \o JoinNames(Names(path))
    ELSE IF Names(path) = <<>> THEN <<".">>
    ELSE JoinNames(Names(path))

\* filepath.Join of two elements: empty elements are ignored
Join(a, b) ==
    IF a = <<>> /\ b = <<>> THEN <<>>
    ELSE IF a = <<>> THEN Clean(b)
    ELSE IF b = <<>> THEN Clean(a)
    ELSE Clean(a \o <<"/">> \o b)

\* filepath.Abs: an absolute path is cleaned, another one is joined to os.Getwd
Abs(env, path) ==
    IF IsAbs(path) THEN [ok |-> TRUE, path |-> Clean(path)]
    ELSE IF env.cwd = NoPath THEN [ok |-> FALSE, path |-> NoPath]
    ELSE [ok |-> TRUE, path |-> Join(env.cwd, path)]

\* line 45: return ".loom"
HomeFallback == <<".loom">>

\* lines 57-72
expandPath(env, path) ==
    IF HasTildePrefix(path)
    THEN IF env.home = NoPath THEN path
         ELSE Join(env.home, SubSeq(path, 3, Len(path)))
    ELSE IF Abs(env, path).ok THEN Abs(env, path).path
    ELSE path

\* lines 35-48
GetLoomDataDir(env) ==
    IF env.LOOM_DATA_DIR # NoPath THEN expandPath(env, env.LOOM_DATA_DIR)
    ELSE IF env.home = NoPath THEN HomeFallback
    ELSE Join(env.home, <<".loom">>)

\* the process calls GetLoomDataDir during bootstrap
GetLoomDataDirCall ==
    /\ ~pret.called
    /\ pret' = [called |-> TRUE, path |-> GetLoomDataDir(penv)]
    /\ UNCHANGED <<penv, spawnVars, orchVars, rrVars, lockVars, fenceVars>>

\* the process is started in any environment
PathInit ==
    /\ SpawnInit
    /\ FenceIdle
    /\ LockIdle
    /\ callers = {}
    /\ rich = FALSE
    /\ OrchIdle
    /\ RerankIdle
    /\ penv \in [LOOM_DATA_DIR : DataDirs, home : HomeDirs, cwd : WorkDirs]
    /\ pret = [called |-> FALSE, path |-> NoPath]

PathNext == GetLoomDataDirCall

SpecPath == PathInit /\ [][PathNext]_vars

(***************************************************************************)
(* The LLM semaphore in the fork-join executor (the parallel executor uses *)
(* the same code): pkg/orchestration/fork_join_executor.go:136-149 as      *)
(* quoted in SEMAPHORE-VERIFICATION.md:153-170.  The semaphore is a        *)
(* buffered channel; a send takes a slot and blocks while the buffer is    *)
(* full, a receive gives a slot back.                                      *)
(***************************************************************************)
Branches == 1..MaxBranches
OtherExecutors == {"pipeline", "debate", "swarm"}

\* a channel whose buffer holds one element more than it was made with
ChannelHasRoom_OneMore == llmSemaphore <= capacity

\* a channel whose buffer holds one element less than it was made with
ChannelHasRoom_OneLess == llmSemaphore < capacity - 1

\* a send on the channel can proceed
ChannelHasRoom == llmSemaphore < capacity

\* an executor starts a fork-join of n branches: one goroutine per agent
ForkJoinLaunch(n) ==
    /\ branches = 0
    /\ branches' = n
    /\ bpc' = [b \in Branches |-> IF b <= n THEN "launched" ELSE "none"]
    /\ UNCHANGED <<capacity, llmSemaphore, bres, cancelled, opc, log>>
    /\ UNCHANGED <<spawnVars, rrVars, lockVars, pathVars, fenceVars>>

\* a branch that logs `acquiring` only once a slot is free
BranchLogAcquiring_WhenRoom(b) ==
    /\ bpc[b] = "launched"
    /\ ChannelHasRoom
    /\ bpc' = [bpc EXCEPT ![b] = "acquiring"]
    /\ UNCHANGED <<capacity, llmSemaphore, branches, bres, cancelled, opc, log>>
    /\ UNCHANGED <<spawnVars, rrVars, lockVars, pathVars, fenceVars>>

\* lines 156-158: Debug("Fork-join branch acquiring LLM semaphore"); a branch
\* at "acquiring" has logged it
BranchLogAcquiring(b) ==
    /\ bpc[b] = "launched"
    /\ bpc' = [bpc EXCEPT ![b] = "acquiring"]
    /\ UNCHANGED <<capacity, llmSemaphore, branches, bres, cancelled, opc, log>>
    /\ UNCHANGED <<spawnVars, rrVars, lockVars, pathVars, fenceVars>>

\* a send that never blocks
BranchAcquire_NonBlocking(b) ==
    /\ bpc[b] = "acquiring"
    /\ llmSemaphore' = llmSemaphore + 1
    /\ bpc' = [bpc EXCEPT ![b] = "holding"]
    /\ UNCHANGED <<capacity, branches, bres, cancelled, opc, log>>
    /\ UNCHANGED <<spawnVars, rrVars, lockVars, pathVars, fenceVars>>

\* line 159: e.orchestrator.llmSemaphore <- struct{}{}
BranchAcquire(b) ==
    /\ bpc[b] = "acquiring"
    /\ ChannelHasRoom
    /\ llmSemaphore' = llmSemaphore + 1
    /\ bpc' = [bpc EXCEPT ![b] = "holding"]
    /\ UNCHANGED <<capacity, branches, bres, cancelled, opc, log>>
    /\ UNCHANGED <<spawnVars, rrVars, lockVars, pathVars, fenceVars>>

\* lines 166-168: Debug("Fork-join branch acquired LLM semaphore")
BranchLogAcquired(b) ==
    /\ bpc[b] = "holding"
    /\ bpc' = [bpc EXCEPT ![b] = "chat"]
    /\ log' = Append(log, "acquired")
    /\ UNCHANGED <<capacity, llmSemaphore, branches, bres, cancelled, opc>>
    /\ UNCHANGED <<spawnVars, rrVars, lockVars, pathVars, fenceVars>>

\* the results a chat call can end with
ChatResults == {"ok", "error"} \cup (IF cancelled THEN {"canceled"} ELSE {})

\* the branch's chat call, issued with the execution's context, returns
BranchChat(b) ==
    /\ bpc[b] = "chat"
    /\ \E r \in ChatResults : bres' = [bres EXCEPT ![b] = r]
    /\ bpc' = [bpc EXCEPT ![b] = "exit"]
    /\ UNCHANGED <<capacity, llmSemaphore, branches, cancelled, opc, log>>
    /\ UNCHANGED <<spawnVars, rrVars, lockVars, pathVars, fenceVars>>

\* a release that is skipped unless the chat call succeeded
SlotsReleased_OnSuccessOnly(result) == IF result = "ok" THEN 1 ELSE 0

\* a branch that ends without the deferred receive
SlotsReleased_Never(result) == 0

\* the slots the deferred function gives back when the branch ends that way
SlotsReleased(result) == 1

\* lines 160-161: the deferred function runs however the branch ends:
\* <-e.orchestrator.llmSemaphore
BranchRelease(b) ==
    /\ bpc[b] = "exit"
    /\ llmSemaphore >= SlotsReleased(bres[b])
    /\ llmSemaphore' = llmSemaphore - SlotsReleased(bres[b])
    /\ bpc' = [bpc EXCEPT ![b] = "released"]
    /\ UNCHANGED <<capacity, branches, bres, cancelled, opc, log>>
    /\ UNCHANGED <<spawnVars, rrVars, lockVars, pathVars, fenceVars>>

\* lines 162-164: Debug("Fork-join branch released LLM semaphore")
BranchLogReleased(b) ==
    /\ bpc[b] = "released"
    /\ bpc' = [bpc EXCEPT ![b] = "done"]
    /\ log' = Append(log, "released")
    /\ UNCHANGED <<capacity, llmSemaphore, branches, bres, cancelled, opc>>
    /\ UNCHANGED <<spawnVars, rrVars, lockVars, pathVars, fenceVars>>

\* the caller cancels the execution, or its timeout elapses
Cancel ==
    /\ branches > 0
    /\ ~cancelled
    /\ \E b \in Branches : bpc[b] \notin {"none", "done"}
    /\ cancelled' = TRUE
    /\ UNCHANGED <<capacity, llmSemaphore, branches, bpc, bres, opc, log>>
    /\ UNCHANGED <<spawnVars, rrVars, lockVars, pathVars, fenceVars>>

\* SEMAPHORE-VERIFICATION.md:207-214: the debate, pipeline and swarm executors
\* do not use the semaphore yet; their chat calls start at once
OtherChatBegin(e) ==
    /\ opc[e] = "idle"
    /\ opc' = [opc EXCEPT ![e] = "chat"]
    /\ UNCHANGED <<capacity, llmSemaphore, branches, bpc, bres, cancelled, log>>
    /\ UNCHANGED <<spawnVars, rrVars, lockVars, pathVars, fenceVars>>

OtherChatEnd(e) ==
    /\ opc[e] = "chat"
    /\ opc' = [opc EXCEPT ![e] = "idle"]
    /\ UNCHANGED <<capacity, llmSemaphore, branches, bpc, bres, cancelled, log>>
    /\ UNCHANGED <<spawnVars, rrVars, lockVars, pathVars, fenceVars>>

\* the semaphore is made with some capacity; no agent is spawned
OrchInit ==
    /\ SpawnInit
    /\ FenceIdle
    /\ LockIdle
    /\ PathIdle
    /\ callers = {}
    /\ rich = FALSE
    /\ capacity \in 1..MaxCapacity
    /\ llmSemaphore = 0
    /\ branches = 0
    /\ bpc = [b \in Branches |-> "none"]
    /\ bres = [b \in Branches |-> "none"]
    /\ cancelled = FALSE
    /\ opc = [e \in OtherExecutors |-> "idle"]
    /\ log = <<>>
    /\ RerankIdle

BranchStep(b) ==
    \/ BranchLogAcquiring(b)
    \/ BranchAcquire(b)
    \/ BranchLogAcquired(b)
    \/ BranchChat(b)
    \/ BranchRelease(b)
    \/ BranchLogReleased(b)

OrchNext ==
    \/ \E n \in Branches : ForkJoinLaunch(n)
    \/ \E b \in Branches : BranchStep(b)
    \/ Cancel
    \/ \E e \in OtherExecutors : OtherChatBegin(e)
    \/ \E e \in OtherExecutors : OtherChatEnd(e)

SpecOrch == OrchInit /\ [][OrchNext]_vars

\* Fair scheduling of the branch goroutines, and chat calls that return: a
\* branch that can take its next step does not wait for ever.  Nothing is
\* assumed of the executor's caller or of the other executors.
OrchFairness == \A b \in Branches : WF_vars(BranchStep(b))

FairSpecOrch == OrchInit /\ [][OrchNext]_vars /\ OrchFairness

(***************************************************************************)
(* The rerank gate: shouldInvokeLLMReRanker (unnamed/part_002:165-214).    *)
(* Scores are float64 in the source and hundredths here.  A comparison of  *)
(* a score with a constant is a comparison of the hundredths, because      *)
(* rounding to float64 is monotonic and one-to-one on hundredths.  The gap *)
(* rule subtracts two float64 values, and there the rounding of the three  *)
(* numbers decides the comparison when the hundredths differ by the        *)
(* threshold exactly.                                                      *)
(***************************************************************************)
\* line 191: 0.70
TopScoreThreshold == 70
\* line 197: 0.20
GapThreshold == 20
\* line 204: 0.60
StrongScore == 60
\* line 208
StrongCandidates == 3

IntentUnknown == "Unknown"
Intents == {IntentUnknown, "Billing"}
Providers == {"nil", "llm"}

\* keyword scores, around the thresholds
Scores == {30, 40, 50, 55, 60, 61, 65, 70, 71, 75, 90, 95}

PatternName == <<"p1", "p2", "p3", "p4", "p5", "p6">>

\* the keyword scorer's output: at most MaxCandidates patterns, sorted by
\* descending score
ScoredLists(scores) ==
    UNION {
      {[i \in 1..n |-> [name |-> PatternName[i], score |-> f[i]]] :
          f \in {g \in [1..n -> scores] :
                    \A i \in 1..n, j \in 1..n : i < j => g[i] >= g[j]}} :
      n \in 0..MaxCandidates}

\* a top score of at most the threshold counts as uncertain
TopScoreUncertain_Inclusive(scored) == scored[1].score <= TopScoreThreshold

\* line 191: scored[0].score < 0.70
TopScoreUncertain(scored) == scored[1].score < TopScoreThreshold

\* float64(k/100) - k/100 in units of 1/(100 * 2^52), for the hundredths k
\* the gate is given and for the gap threshold
Float64Error ==
    [k \in Scores \cup {GapThreshold} |->
        CASE k = 20 -> 5
          [] k = 30 -> -5
          [] k = 40 -> 10
          [] k = 50 -> 0
          [] k = 55 -> 20
          [] k = 60 -> -10
          [] k = 61 -> -6
          [] k = 65 -> 10
          [] k = 70 -> -20
          [] k = 71 -> -16
          [] k = 75 -> 0
          [] k = 90 -> 10
          [] k = 95 -> -20]

\* float64(a/100) - float64(b/100) < float64(c/100) as IEEE-754 evaluates it:
\* the hundredths decide unless they differ by c exactly, and then the
\* subtraction is exact (b >= a/2) and the rounding errors decide
Float64GapBelow(a, b, c) ==
    \/ a - b < c
    \/ a - b = c /\ Float64Error[a] - Float64Error[b] < Float64Error[c]

\* a gap rule with the earlier threshold of 0.15
CloseRace_Threshold15(scored) ==
    Len(scored) >= 2 /\ scored[1].score - scored[2].score < 15

\* line 197: len(scored) >= 2 && (scored[0].score-scored[1].score) < 0.20
CloseRace(scored) ==
    /\ Len(scored) >= 2
    /\ Float64GapBelow(scored[1].score, scored[2].score, GapThreshold)

\* a count that takes a score of exactly 0.60 for a strong one
strongCandidates_Inclusive(scored) ==
    Cardinality({i \in 1..Len(scored) : scored[i].score >= StrongScore})

\* lines 202-207: the patterns scoring above 0.60
strongCandidates(scored) ==
    Cardinality({i \in 1..Len(scored) : scored[i].score > StrongScore})

\* a gate that looks at the intent before the provider and the list
shouldInvokeLLMReRanker_IntentFirst(scored, intent, llmProvider) ==
    IF intent = IntentUnknown THEN TRUE
    ELSE IF llmProvider = "nil" THEN FALSE
    ELSE IF Len(scored) = 0 THEN FALSE
    ELSE IF TopScoreUncertain(scored) THEN TRUE
    ELSE IF CloseRace(scored) THEN TRUE
    ELSE IF strongCandidates(scored) >= StrongCandidates THEN TRUE
    ELSE FALSE

shouldInvokeLLMReRanker(scored, intent, llmProvider) ==
    IF llmProvider = "nil" THEN FALSE                            \* lines 173-175
    ELSE IF Len(scored) = 0 THEN FALSE                           \* lines 178-180
    ELSE IF intent = IntentUnknown THEN TRUE                     \* lines 185-187
    ELSE IF TopScoreUncertain(scored) THEN TRUE                  \* lines 191-193
    ELSE IF CloseRace(scored) THEN TRUE                          \* lines 197-199
    ELSE IF strongCandidates(scored) >= StrongCandidates THEN TRUE  \* 208-210
    ELSE FALSE                                                   \* line 213

\* the recommender asks the gate about its scored list
GateCall ==
    /\ ~gate.called
    /\ gate' = [called |-> TRUE,
                result |-> shouldInvokeLLMReRanker(rq.candidates, rq.intent,
                                                   rq.llmProvider)]
    /\ UNCHANGED <<rq, rr, llmCalls, prev, now>>
    /\ UNCHANGED <<spawnVars, orchVars, lockVars, pathVars, fenceVars>>

\* the recommender takes up the next query with the same input
GateReturn ==
    /\ gate.called
    /\ gate' = NoGate
    /\ UNCHANGED <<rq, rr, llmCalls, prev, now>>
    /\ UNCHANGED <<spawnVars, orchVars, lockVars, pathVars, fenceVars>>

\* any provider, intent and scored list
GateInit ==
    /\ SpawnInit
    /\ FenceIdle
    /\ LockIdle
    /\ PathIdle
    /\ callers = {}
    /\ rich = FALSE
    /\ capacity = llmConcurrencyLimit
    /\ llmSemaphore = 0
    /\ branches = 0
    /\ bpc = [b \in 1..MaxBranches |-> "none"]
    /\ bres = [b \in 1..MaxBranches |-> "none"]
    /\ cancelled = FALSE
    /\ opc = [e \in {"pipeline", "debate", "swarm"} |-> "idle"]
    /\ log = <<>>
    /\ rq \in [llmProvider : Providers, candidates : ScoredLists(Scores),
                intent : Intents]
    /\ gate = NoGate
    /\ rr = IdleRerank
    /\ llmCalls = 0
    /\ prev = NoPrev
    /\ now = 0

GateNext == GateCall \/ GateReturn

SpecGate == GateInit /\ [][GateNext]_vars

(***************************************************************************)
(* The reranker: reRankPatternsWithLLM (unnamed/part_002:46-163) and its   *)
(* configuration (18-37).  Confidences and scores are in hundredths.       *)
(***************************************************************************)
\* lines 34-35: DefaultLLMReRankerConfig
EnableCache == TRUE
CacheTTL == 30

Queries == {"q1", "q2"}
RerankScores == {40, 95}
Confidences == {0 - 50, 0, 85, 100, 150}
Delays == {10, 40}

CandidateNames(candidates) == {candidates[i].name : i \in 1..Len(candidates)}

\* what llmProvider.Chat and json.Unmarshal can make of a call: a chat error,
\* a response that does not parse, or an object naming a candidate, no
\* pattern or a pattern that was not offered, with any confidence
Responses(candidates) ==
    {[NoResponse EXCEPT !.kind = "error"], [NoResponse EXCEPT !.kind = "garbage"]}
    \cup [kind : {"json"},
          selected : CandidateNames(candidates) \cup {"", "other"},
          confidence : Confidences]

\* a validation without the test for an empty list
ValidateRerank_ProviderOnly(llmProvider, candidates) ==
    IF llmProvider = "nil" THEN "err_provider_nil" ELSE "nil"

\* lines 54-60: the provider is tested first, then the candidate list
ValidateRerank(llmProvider, candidates) ==
    IF llmProvider = "nil" THEN "err_provider_nil"
    ELSE IF Len(candidates) = 0 THEN "err_no_candidates"
    ELSE "nil"

\* a validation of the selected pattern that accepts any name
Found_Always(candidates, selected) == TRUE

\* lines 140-146: the selected pattern is one of the candidates
Found(candidates, selected) ==
    \E i \in 1..Len(candidates) : candidates[i].name = selected

\* a clamp of the upper end only
Clamp_UpperOnly(confidence) == IF confidence > 100 THEN 100 ELSE confidence

\* lines 155-160: the confidence, brought into [0.0, 1.0]
Clamp(confidence) ==
    IF confidence < 0 THEN 0
    ELSE IF confidence > 100 THEN 100
    ELSE confidence

\* lines 109-162: what the function returns for the LLM's response
RerankResult(candidates, resp) ==
    IF resp.kind = "error"                                  \* lines 110-112
    THEN [name |-> "", confidence |-> 0, err |-> "err_llm"]
    ELSE IF resp.kind = "garbage"                           \* lines 135-137
    THEN [name |-> "", confidence |-> 0, err |-> "err_parse"]
    ELSE IF ~Found(candidates, resp.selected)               \* lines 148-152
    THEN [name |-> candidates[1].name, confidence |-> candidates[1].score,
          err |-> "err_not_in_candidates"]
    ELSE [name |-> resp.selected, confidence |-> Clamp(resp.confidence),
          err |-> "nil"]                                    \* line 162

\* lines 48-60: the call, and the two tests before the prompt is built
RerankCall(q) ==
    /\ rr.pc = "idle"
    /\ llmCalls < MaxCalls
    /\ LET err == ValidateRerank(rq.llmProvider, rq.candidates) IN
       rr' = IF err # "nil"
             THEN [IdleRerank EXCEPT !.pc = "done", !.query = q,
                      !.ret = [name |-> "", confidence |-> 0, err |-> err]]
             ELSE [IdleRerank EXCEPT !.pc = "chat", !.query = q]
    /\ UNCHANGED <<rq, gate, llmCalls, prev, now>>
    /\ UNCHANGED <<spawnVars, orchVars, lockVars, pathVars, fenceVars>>

\* lines 62-109: the prompt is built and llmProvider.Chat is called
RerankChat ==
    /\ rr.pc = "chat"
    /\ llmCalls' = llmCalls + 1
    /\ \E resp \in Responses(rq.candidates) :
          rr' = [rr EXCEPT !.pc = "parse", !.resp = resp]
    /\ UNCHANGED <<rq, gate, prev, now>>
    /\ UNCHANGED <<spawnVars, orchVars, lockVars, pathVars, fenceVars>>

\* lines 110-162: the response is parsed and validated
RerankParse ==
    /\ rr.pc = "parse"
    /\ rr' = [rr EXCEPT !.pc = "done", !.ret = RerankResult(rq.candidates, rr.resp)]
    /\ UNCHANGED <<rq, gate, llmCalls, prev, now>>
    /\ UNCHANGED <<spawnVars, orchVars, lockVars, pathVars, fenceVars>>

\* the call has returned; a selection returned without an error is remembered
\* with its time
RerankReturn ==
    /\ rr.pc = "done"
    /\ rr' = IdleRerank
    /\ prev' = IF rr.ret.err = "nil"
               THEN [query |-> rr.query, at |-> now, name |-> rr.ret.name]
               ELSE prev
    /\ UNCHANGED <<rq, gate, llmCalls, now>>
    /\ UNCHANGED <<spawnVars, orchVars, lockVars, pathVars, fenceVars>>

\* time passes between two requests
Elapse(d) ==
    /\ rr.pc = "idle"
    /\ now + d <= MaxClock
    /\ now' = now + d
    /\ UNCHANGED <<rq, gate, rr, llmCalls, prev>>
    /\ UNCHANGED <<spawnVars, orchVars, lockVars, pathVars, fenceVars>>

\* any provider and any scored list of candidates
RerankInit ==
    /\ SpawnInit
    /\ FenceIdle
    /\ LockIdle
    /\ PathIdle
    /\ callers = {}
    /\ rich = FALSE
    /\ capacity = llmConcurrencyLimit
    /\ llmSemaphore = 0
    /\ branches = 0
    /\ bpc = [b \in 1..MaxBranches |-> "none"]
    /\ bres = [b \in 1..MaxBranches |-> "none"]
    /\ cancelled = FALSE
    /\ opc = [e \in {"pipeline", "debate", "swarm"} |-> "idle"]
    /\ log = <<>>
    /\ rq \in [llmProvider : Providers, candidates : ScoredLists(RerankScores),
                intent : {"Billing"}]
    /\ gate = NoGate
    /\ rr = IdleRerank
    /\ llmCalls = 0
    /\ prev = NoPrev
    /\ now = 0

RerankNext ==
    \/ \E q \in Queries : RerankCall(q)
    \/ RerankChat
    \/ RerankParse
    \/ RerankReturn
    \/ \E d \in Delays : Elapse(d)

SpecRerank == RerankInit /\ [][RerankNext]_vars

(***************************************************************************)
(* The reranker's handling of markdown code blocks (unnamed/part_002:      *)
(* 114-137).  A response is a sequence of tokens: the two fences, a JSON   *)
(* object, white space and a word of prose.  The substring ``` occurs in   *)
(* the token ``` and at the start of the token ```json.                    *)
(***************************************************************************)
\* the text ```json
JsonFence == "fence_json"
\* the text ```
Fence == "fence"
JsonObject == "{}"
Space == " "
Word == "w"
Tokens == {JsonFence, Fence, JsonObject, Space, Word}

\* every response of at most MaxResponseLen tokens
ResponseTexts == UNION {[1..n -> Tokens] : n \in 0..MaxResponseLen}

\* the positions at which substr occurs in text
Occurrences(text, substr) ==
    {i \in 1..Len(text) :
        text[i] = substr \/ (substr = Fence /\ text[i] = JsonFence)}

\* strings.Index: the offset of the first occurrence, -1 if there is none
Index(text, substr) ==
    LET occ == Occurrences(text, substr) IN
    IF occ = {} THEN 0 - 1
    ELSE (CHOOSE i \in occ : \A j \in occ : i <= j) - 1

\* strings.Contains
Contains(text, substr) == Index(text, substr) >= 0

\* text[a:b]
Slice(text, a, b) == SubSeq(text, a + 1, b)

\* lines 119-123 and 125-129: the text after the first occurrence of the
\* fence up to the next ```, if that is found at an offset > 0
StripFence(text, fence) ==
    LET start == Index(text, fence) + 1
        end == Index(Slice(text, start, Len(text)), Fence)
    IN  IF end > 0 THEN Slice(text, start, start + end) ELSE text

\* line 132: strings.TrimSpace
TrimSpace(text) ==
    LET ink == {i \in 1..Len(text) : text[i] # Space} IN
    IF ink = {} THEN <<>>
    ELSE SubSeq(text, CHOOSE i \in ink : \A j \in ink : i <= j,
                      CHOOSE i \in ink : \A j \in ink : i >= j)

\* lines 114-132: the text json.Unmarshal is given for a response
ExtractJSON(responseText) ==
    TrimSpace(IF Contains(responseText, JsonFence)            \* line 118
              THEN StripFence(responseText, JsonFence)        \* lines 119-123
              ELSE IF Contains(responseText, Fence)           \* line 124
              THEN StripFence(responseText, Fence)            \* lines 125-129
              ELSE responseText)

\* lines 114-135: the response is stripped, trimmed and handed to the parser
ParseResponse ==
    /\ ~unmarshal.called
    /\ unmarshal' = [called |-> TRUE, text |-> ExtractJSON(response)]
    /\ UNCHANGED response
    /\ UNCHANGED <<spawnVars, orchVars, rrVars, lockVars, pathVars>>

\* the LLM answers with any text
FenceInit ==
    /\ SpawnInit
    /\ LockIdle
    /\ PathIdle
    /\ callers = {}
    /\ rich = FALSE
    /\ OrchIdle
    /\ RerankIdle
    /\ response \in ResponseTexts
    /\ unmarshal = [called |-> FALSE, text |-> NoText]

FenceNext == ParseResponse

SpecFence == FenceInit /\ [][FenceNext]_vars

(***************************************************************************)
(* Properties of the spawn manager.                                        *)
(***************************************************************************)
Parents == Roots \cup SessionIds

\* the tracked children of a parent, read off the table
ChildrenOf(p) ==
    {sid \in DOMAIN spawnedAgents : spawnedAgents[sid].parentSessionID = p}

\* C1: in every reachable state every parent has at most maxSpawnsPerParent
\* entries in the spawn table, for concurrent SpawnSubAgent calls too.
C1_SpawnLimitAlways ==
    \A p \in Parents : Cardinality(ChildrenOf(p)) <= maxSpawnsPerParent

\* C3: once the parent of a tracked child has ended (and with it
\* cleanupSpawnedAgentsByParent has taken its snapshot), the child is eventually
\* removed from the spawn table and its context cancelled.
C3_ParentEndReachesEveryChild ==
    \A sid \in SessionIds :
        [] ( ( /\ sid \in DOMAIN spawnedAgents
               /\ spawnedAgents[sid].parentSessionID \in ended )
             => <> (sid \notin DOMAIN spawnedAgents /\ sid \in ctxDone) )

\* the sessions SpawnSubAgent has created so far
CreatedSessions == {GenerateSessionID(n) : n \in 1..(nextSession - 1)}

\* C8: with one caller at a time and no cleanup, a call is rejected with the
\* spawn-limit error exactly when the parent already holds maxSpawnsPerParent
\* children (so the first maxSpawnsPerParent calls pass and the later ones
\* fail), and a rejected call adds no entry: the table holds exactly the
\* sessions of the calls that were not rejected.
C8_SequentialSpawnLimit ==
    /\ \A p \in Parents : Cardinality(ChildrenOf(p)) <= maxSpawnsPerParent
    /\ \A t \in callers :
          LET p == th[t].req.ParentSessionID IN
          /\ (th[t].pc = "done" /\ th[t].ret = "err_spawn_limit") =>
                /\ Cardinality(ChildrenOf(p)) = maxSpawnsPerParent
                /\ th[t].sessionID = ""
          /\ th[t].pc \in {"load", "save", "subscribe", "track"} =>
                Cardinality(ChildrenOf(p)) < maxSpawnsPerParent
    /\ DOMAIN spawnedAgents =
          CreatedSessions \ {th[t].sessionID : t \in {u \in callers :
                                   th[u].pc \in {"subscribe", "track"}}}

\* C8 witness: a call has been rejected at the limit, after the calls before it
\* filled the parent's quota
C8_Witness ==
    \E t \in callers :
        /\ th[t].pc = "done"
        /\ th[t].ret = "err_spawn_limit"
        /\ Cardinality(ChildrenOf(th[t].req.ParentSessionID)) = maxSpawnsPerParent
        /\ \A u \in callers \ {t} : th[u].pc = "idle"

\* C9: a tracked child whose parent is a spawned session that has been cleaned
\* up is eventually cleaned up too.
C9_CleanupCascades ==
    \A sid \in SessionIds :
        [] ( ( /\ sid \in DOMAIN spawnedAgents
               /\ spawnedAgents[sid].parentSessionID \in SessionIds
               /\ spawnedAgents[sid].parentSessionID \notin DOMAIN spawnedAgents )
             => <> (sid \notin DOMAIN spawnedAgents) )

\* a cleanupSpawnedAgent call that found its session in the table and has
\* finished its work
CleanupCompleted(c) == cl[c].pc = "ret" /\ cl[c].target # ""

\* C10 (as stated): when cleanupSpawnedAgent has completed for a session that
\* was in the table, the entry is absent, the context is cancelled, and the bus
\* holds no subscription of the child's sub-agent id on any recorded topic.
C10_NoSubscriptionOfAgentLeft ==
    \A c \in Cleaners :
        CleanupCompleted(c) =>
            /\ cl[c].target \notin DOMAIN spawnedAgents
            /\ cl[c].target \in ctxDone
            /\ \A k \in 1..Len(cl[c].spawned.subscriptions) :
                  ~ \E sub \in busSubs :
                        /\ sub.AgentID = cl[c].spawned.subAgentID
                        /\ sub.Topic = cl[c].spawned.subscriptions[k]

\* C10 (amended): when cleanupSpawnedAgent has completed for a session that was
\* in the table, the entry is absent, the context is cancelled, and none of the
\* subscriptions created for that child at spawn is left on the bus; and every
\* step of a cleanup in progress can be taken, whatever the bus still holds.
C10_OwnSubscriptionsRemoved ==
    \A c \in Cleaners :
        /\ CleanupCompleted(c) =>
              /\ cl[c].target \notin DOMAIN spawnedAgents
              /\ cl[c].target \in ctxDone
              /\ ~ \E sub \in busSubs : sub.ID[1] = cl[c].target
        /\ cl[c].pc \in {"lookup", "cancel", "unsub"} => ENABLED CleanupStep(c)

\* C10 witness: a cleanup completed for a child with a recorded topic while the
\* bus holds a subscription of the same sub-agent id, made for another child
C10_Witness ==
    \E c \in Cleaners :
        /\ CleanupCompleted(c)
        /\ Len(cl[c].spawned.subscriptions) > 0
        /\ \E sub \in busSubs :
              /\ sub.AgentID = cl[c].spawned.subAgentID
              /\ sub.Topic = cl[c].spawned.subscriptions[1]
              /\ sub.ID[1] # cl[c].target

\* the topics among the first n of a request's auto_subscribe list whose
\* Subscribe call, made for the session, succeeded, in request order
RECURSIVE SucceededTopics(_, _, _)
SucceededTopics(sessionID, topics, n) ==
    IF n = 0 THEN <<>>
    ELSE LET before == SucceededTopics(sessionID, topics, n - 1) IN
         IF \E sub \in busSubs : sub.ID = <<sessionID, n>>
         THEN Append(before, topics[n]) ELSE before

\* C13: a call that has created its session always ends with "spawned",
\* whichever Subscribe calls failed; the child is then in the spawn table, its
\* monitor runs, and the topics of the response and the topics recorded for
\* the child are exactly the requested topics whose Subscribe succeeded, in
\* request order.
C13_FailedSubscribeNeverAborts ==
    \A t \in callers :
        (th[t].pc = "done" /\ th[t].sessionID # "") =>
            LET sid == th[t].sessionID
                requested == th[t].req.AutoSubscribe
                succeeded == SucceededTopics(sid, requested, Len(requested))
            IN  /\ th[t].ret = "spawned"
                /\ sid \in DOMAIN spawnedAgents
                /\ monitor[sid] = "select"
                /\ th[t].subscribedTopics = succeeded
                /\ spawnedAgents[sid].subscriptions = succeeded

\* C13 witness: a spawn with two requested topics has returned "spawned" with
\* the second topic only: the first Subscribe failed
C13_Witness ==
    \E t \in callers :
        /\ th[t].pc = "done"
        /\ th[t].ret = "spawned"
        /\ Len(th[t].req.AutoSubscribe) = 2
        /\ th[t].subscribedTopics = <<th[t].req.AutoSubscribe[2]>>
        /\ th[t].sessionID \in DOMAIN spawnedAgents

\* C11: the monitor of a child starts cleanup only when the child's context is
\* cancelled or the session it loaded at a tick has been idle beyond the
\* threshold, and only then does the monitor's cleanup remove the child from
\* the spawn table: a child that stays active and uncancelled is never removed
\* by its monitor.
C11_MonitorCleansOnlyIdleOrCancelled ==
    [][ \A sid \in SessionIds :
          /\ (monitor[sid] = "select" /\ monitor'[sid] = "cleanup")
                => (sid \in ctxDone \/ sid \in idle)
          /\ (/\ cl[sid].pc = "lookup"
              /\ sid \in DOMAIN spawnedAgents
              /\ sid \notin DOMAIN spawnedAgents')
                => (sid \in ctxDone \/ sid \in idle) ]_vars

\* C11 witness: a monitor has started cleanup for an idle child whose context
\* is not cancelled, while the monitor of another, active child keeps waiting
C11_Witness ==
    \E sid \in SessionIds, other \in SessionIds :
        /\ monitor[sid] = "cleanup"
        /\ sid \in idle
        /\ sid \notin ctxDone
        /\ monitor[other] = "select"
        /\ other \notin idle
        /\ other \in DOMAIN spawnedAgents

\* C12: a tracked child does not stay idle and tracked for ever: once its
\* session has been idle beyond the threshold and gets no further update, the
\* child is eventually removed from the spawn table, whatever LoadSession
\* returns.
C12_IdleChildEventuallyRemoved ==
    \A sid \in SessionIds :
        ~ <>[] (sid \in DOMAIN spawnedAgents /\ sid \in idle)

(***************************************************************************)
(* Properties of the LLM semaphore.                                        *)
(***************************************************************************)
\* the branches between their semaphore acquire and their semaphore release
Holders == {b \in Branches : bpc[b] \in {"holding", "chat", "exit"}}

\* the branches of the execution
Launched == 1..branches

\* the number of messages of a kind in the log
Logged(kind) == Cardinality({i \in 1..Len(log) : log[i] = kind})

\* the position of the first "released" message, 0 if there is none
FirstReleased ==
    IF Logged("released") = 0 THEN 0
    ELSE CHOOSE i \in 1..Len(log) :
            /\ log[i] = "released"
            /\ \A j \in 1..(i - 1) : log[j] # "released"

\* C2: in every reachable state the number of fork-join branches between their
\* semaphore acquire and their release is at most the capacity, for any number
\* of branches and any interleaving.
C2_HoldersWithinCapacity == Cardinality(Holders) <= capacity

\* C2 witness: more branches than slots; every slot is held and a branch waits
C2_Witness ==
    /\ branches > capacity
    /\ Cardinality(Holders) = capacity
    /\ \E b \in Branches : bpc[b] = "acquiring"

\* C4: the slots held are exactly those of the branches between acquire and
\* release (each acquiring branch gives back exactly one slot, however its chat
\* call ended), and once all branches of an execution have ended no slot is
\* held, as before the execution started.
C4_EveryBranchReleasesOneSlot ==
    /\ llmSemaphore = Cardinality(Holders)
    /\ (branches > 0 /\ \A b \in Launched : bpc[b] = "done") => llmSemaphore = 0

\* C4 witness: all branches have ended, one after a successful chat call, one
\* after a failed one and one after a cancelled one
C4_Witness ==
    /\ branches > 0
    /\ \A b \in Launched : bpc[b] = "done"
    /\ \A r \in {"ok", "error", "canceled"} : \E b \in Launched : bres[b] = r

\* C5: a branch that is waiting for the semaphore when the execution is
\* cancelled stops waiting without acquiring a slot: no step takes a waiting
\* branch of a cancelled execution to holding a slot.
C5_WaitingBranchHonorsCancel ==
    [][ \A b \in Branches :
            (bpc[b] = "acquiring" /\ cancelled) => bpc'[b] # "holding" ]_vars

\* a fork-join of 3 branches on a semaphore of the configured capacity 2
ThreeOnTwo == branches = 3 /\ capacity = llmConcurrencyLimit

\* C6 (as stated): with 3 branches and capacity 2, in the log exactly two
\* "acquired" messages precede the first "released" message; in particular the
\* third "acquired" is never logged before the first "released".
C6_TwoAcquiredBeforeFirstReleased ==
    ThreeOnTwo =>
        /\ Logged("released") = 0 => Logged("acquired") <= 2
        /\ Logged("released") > 0 =>
              Cardinality({i \in 1..(FirstReleased - 1) : log[i] = "acquired"}) = 2

\* C6 (amended): with 3 branches and capacity 2, at least one and at most three
\* "acquired" messages precede the first "released" message; the third
\* "acquired" is never logged before some branch has given its slot back; and
\* the "acquired" messages outnumber the "released" ones by at most 2 plus the
\* branches that have given their slot back and not logged it yet.
C6_ThirdAcquiredAfterFirstGiveBack ==
    ThreeOnTwo =>
        /\ Logged("released") > 0 => FirstReleased > 1
        /\ Logged("acquired") = 3 =>
              \E b \in Launched : bpc[b] \in {"released", "done"}
        /\ Logged("acquired") - Logged("released")
              <= llmConcurrencyLimit
                 + Cardinality({b \in Launched : bpc[b] = "released"})

\* C6 witness: with 3 branches and capacity 2, the third "acquired" message is
\* in the log and no "released" message is
C6_Witness ==
    /\ ThreeOnTwo
    /\ Logged("acquired") = 3
    /\ Logged("released") = 0

\* C7: the chat calls in progress, of fork-join branches and of pipeline
\* stages, debate turns and swarm voters together, never exceed the capacity.
C7_AllExecutorsWithinCapacity ==
    Cardinality({b \in Branches : bpc[b] = "chat"})
      + Cardinality({e \in OtherExecutors : opc[e] = "chat"}) <= capacity

(***************************************************************************)
(* Properties of the rerank gate.                                          *)
(***************************************************************************)
\* one of the four gate conditions holds of the input
AnyGateCondition ==
    \/ rq.intent = IntentUnknown
    \/ Len(rq.candidates) >= 1 /\ rq.candidates[1].score < 70
    \/ Len(rq.candidates) >= 2
          /\ rq.candidates[1].score - rq.candidates[2].score < 20
    \/ Cardinality({i \in 1..Len(rq.candidates) :
                       rq.candidates[i].score > 60}) >= 3

\* C14 (as stated): shouldInvokeLLMReRanker returns true for every input
\* (scored list, intent, provider) of which one of the four gate conditions
\* holds.
C14_TrueWheneverAGateHolds ==
    (gate.called /\ AnyGateCondition) => gate.result

\* C14 (amended): shouldInvokeLLMReRanker returns true for every input with a
\* provider and a non-empty scored list of which one of the four gate
\* conditions holds; without a provider, or for an empty list, it returns
\* false.
C14_TrueWheneverAGateHoldsAndCanRerank ==
    gate.called =>
        IF rq.llmProvider = "nil" \/ Len(rq.candidates) = 0
        THEN ~gate.result
        ELSE AnyGateCondition => gate.result

\* C14 witness: the gate returned true for a known intent and a top score of
\* 0.90 because only the three-strong-candidates condition holds
C14_Witness ==
    /\ gate.called
    /\ gate.result
    /\ rq.intent # IntentUnknown
    /\ Len(rq.candidates) = 3
    /\ rq.candidates[1].score = 90
    /\ rq.candidates[2].score = 70
    /\ rq.candidates[3].score = 61

\* C15 (as stated): for a descending-sorted non-empty scored list with a known intent, a
\* top score >= 0.70, a top-two gap >= 0.20 and fewer than three scores above
\* 0.60 the result is false, as for [0.95, 0.40, 0.30] with intent Billing;
\* for [0.65, 0.55, 0.50] and a provider it is true.
C15_FalseWhenNoGateHolds ==
    gate.called =>
        /\ (Len(rq.candidates) >= 1 /\ ~AnyGateCondition) => ~gate.result
        /\ ( /\ rq.llmProvider # "nil"
             /\ Len(rq.candidates) = 3
             /\ rq.candidates[1].score = 65
             /\ rq.candidates[2].score = 55
             /\ rq.candidates[3].score = 50 ) => gate.result

\* the pairs of scores a decimal 0.20 apart whose float64 difference is
\* below float64(0.20): 0.19999999999999996 for each of them
GapRoundsBelow == {<<70, 50>>, <<75, 55>>, <<95, 75>>}

\* the top two are a decimal 0.20 apart and their float64 difference is below
\* float64(0.20)
TopTwoRoundBelow ==
    /\ Len(rq.candidates) >= 2
    /\ <<rq.candidates[1].score, rq.candidates[2].score>> \in GapRoundsBelow

\* C15 (amended): for a descending-sorted non-empty scored list with a known
\* intent, a top score >= 0.70, a top-two gap >= 0.20 whose float64 difference
\* is not below float64(0.20), and fewer than three scores above 0.60 the
\* result is false, as for [0.95, 0.40, 0.30] with intent Billing; for
\* [0.65, 0.55, 0.50] and a provider it is true.
C15_FalseWhenNoGateHoldsInFloat64 ==
    gate.called =>
        /\ (Len(rq.candidates) >= 1 /\ ~AnyGateCondition /\ ~TopTwoRoundBelow)
              => ~gate.result
        /\ ( /\ rq.llmProvider # "nil"
             /\ Len(rq.candidates) = 3
             /\ rq.candidates[1].score = 65
             /\ rq.candidates[2].score = 55
             /\ rq.candidates[3].score = 50 ) => gate.result

\* C15 witness: the gate returned false for [0.95, 0.40, 0.30], intent Billing
\* and a provider
C15_Witness ==
    /\ gate.called
    /\ ~gate.result
    /\ rq.llmProvider # "nil"
    /\ rq.intent = "Billing"
    /\ Len(rq.candidates) = 3
    /\ rq.candidates[1].score = 95
    /\ rq.candidates[2].score = 40
    /\ rq.candidates[3].score = 30

(***************************************************************************)
(* Properties of the reranker.                                             *)
(***************************************************************************)
\* a reRankPatternsWithLLM call has returned
Returned == rr.pc = "done"

\* C16: whenever reRankPatternsWithLLM returns a non-empty pattern name, the
\* name is one of the candidates: the LLM's selected_pattern when it is a
\* candidate, and otherwise candidates[0] with its keyword score, together
\* with the not-in-candidates error as the warning.
C16_SelectionIsACandidate ==
    (Returned /\ rr.ret.name # "") =>
        /\ rr.ret.name \in CandidateNames(rq.candidates)
        /\ rr.resp.kind = "json"
        /\ IF rr.resp.selected \in CandidateNames(rq.candidates)
           THEN rr.ret.name = rr.resp.selected /\ rr.ret.err = "nil"
           ELSE /\ rr.ret.name = rq.candidates[1].name
                /\ rr.ret.confidence = rq.candidates[1].score
                /\ rr.ret.err = "err_not_in_candidates"

\* C16 witness: the LLM selected a pattern that was not offered, and the top
\* one of several candidates was returned with the warning
C16_Witness ==
    /\ Returned
    /\ Len(rq.candidates) >= 2
    /\ rr.resp.selected = "other"
    /\ rr.ret.name = rq.candidates[1].name
    /\ rr.ret.err = "err_not_in_candidates"

\* C17: when the chat call fails or the response does not parse as JSON, the
\* call returns the top keyword candidate as the selection, and no error.
C17_LLMFailureFallsBackToTopCandidate ==
    (Returned /\ rr.resp.kind \in {"error", "garbage"}) =>
        /\ rr.ret.name = rq.candidates[1].name
        /\ rr.ret.err = "nil"

\* C18: the confidence returned with a selection lies in [0,1]: the LLM's
\* confidence where that is in range, 0 below the range and 1 above it, and on
\* the fallback to the top keyword candidate that candidate's score.
C18_ConfidenceInUnitInterval ==
    (Returned /\ rr.ret.name # "") =>
        /\ rr.ret.confidence >= 0
        /\ rr.ret.confidence <= 100
        /\ rr.ret.err = "nil" =>
              rr.ret.confidence =
                 (IF rr.resp.confidence < 0 THEN 0
                  ELSE IF rr.resp.confidence > 100 THEN 100
                  ELSE rr.resp.confidence)

\* C18 witness: the LLM reported a confidence below 0 with a valid selection
\* and 0 was returned
C18_Witness ==
    /\ Returned
    /\ rr.ret.err = "nil"
    /\ rr.ret.name # ""
    /\ rr.resp.confidence < 0
    /\ rr.ret.confidence = 0

\* C19 (as stated): a call with an empty candidate list returns the
\* no-candidates error, and no chat call is issued for an empty list.
C19_EmptyListYieldsNoCandidates ==
    Len(rq.candidates) = 0 =>
        /\ llmCalls = 0
        /\ rr.pc \in {"idle", "done"}
        /\ Returned => rr.ret.err = "err_no_candidates"

\* C19 (amended): a call with an empty candidate list returns an error and no
\* selection, the no-candidates error when there is a provider and the
\* nil-provider error when there is none, and no chat call is issued for an
\* empty list.
C19_EmptyListYieldsErrorByProvider ==
    Len(rq.candidates) = 0 =>
        /\ llmCalls = 0
        /\ rr.pc \in {"idle", "done"}
        /\ Returned =>
              /\ rr.ret.name = ""
              /\ rr.ret.err = IF rq.llmProvider = "nil"
                              THEN "err_provider_nil" ELSE "err_no_candidates"

\* C19 witness: a call with a provider and no candidates has returned the
\* no-candidates error
C19_Witness ==
    /\ Returned
    /\ Len(rq.candidates) = 0
    /\ rq.llmProvider # "nil"
    /\ rr.ret.err = "err_no_candidates"
    /\ llmCalls = 0

\* C20: with caching enabled, a rerank request for the query of an earlier
\* request that returned a selection at most CacheTTL minutes ago issues no
\* chat call.
C20_SecondRequestWithinTTLUsesCache ==
    [][ ( /\ EnableCache
          /\ rr.pc = "chat"
          /\ prev.name # ""
          /\ prev.query = rr.query
          /\ now - prev.at <= CacheTTL ) => llmCalls' = llmCalls ]_vars

\* the calls that have just returned a response
Spawned(t) == th[t].pc = "done" /\ th[t].ret = "spawned"

\* C23: for every successful spawn, the sub_agent_id of the response, of the
\* spawn-table entry and of the child's bus subscriptions is
\* "workflow_id:agent_id" when the request has a workflow_id and agent_id
\* otherwise, and the stored session records the un-namespaced agent_id and the
\* request's parent_session_id.
C23_SubAgentIdNamespacedEverywhere ==
    \A t \in Threads :
       Spawned(t) =>
          LET req == th[t].req
              sessionID == th[t].sessionID
              expected == IF req.WorkflowID = "" THEN req.AgentID
                          ELSE req.WorkflowID \o ":" \o req.AgentID
          IN  /\ th[t].subAgentID = expected
              /\ sessionID \in DOMAIN spawnedAgents
              /\ spawnedAgents[sessionID].subAgentID = expected
              /\ \A sub \in busSubs : sub.ID[1] = sessionID => sub.AgentID = expected
              /\ sessionStore[sessionID].AgentID = req.AgentID
              /\ sessionStore[sessionID].ParentSessionID = req.ParentSessionID

\* a spawn in a workflow has returned, and the child is subscribed to a topic
C23_Witness ==
    \E t \in Threads :
       /\ Spawned(t)
       /\ th[t].req.WorkflowID = "wf"
       /\ th[t].subAgentID = "wf:a"
       /\ \E sub \in busSubs : sub.ID[1] = th[t].sessionID

Executed == tool.pc = "done"

\* a call that fails: no handler, an invalid agent_id, or a handler error
ExecuteFails ==
    \/ tool.handler = "nil"
    \/ tool.agent_id.kind # "string"
    \/ tool.agent_id.value = ""
    \/ tool.cause \notin {"none", "spawned"}

\* C21: Execute never returns a Go error: for every input and every outcome
\* of the handler it returns (result, nil); on a failure (no handler, invalid
\* agent_id, handler error) the result has Success false and an error with a
\* code, a message and a suggestion; on success it has Success true and the
\* sub_agent_id, session_id, status and subscribed_topics of the handler's
\* response.
C21_ExecuteReturnsResultAndNilError ==
    Executed =>
       /\ tool.result.err = "nil"
       /\ ExecuteFails =>
             /\ ~tool.result.Success
             /\ tool.result.Code # ""
             /\ tool.result.Message # ""
             /\ tool.result.Suggestion # ""
       /\ ~ExecuteFails =>
             /\ tool.cause = "spawned"
             /\ tool.result.Success
             /\ tool.result.sub_agent_id = tool.resp.SubAgentID
             /\ tool.result.session_id = tool.resp.SessionID
             /\ tool.result.status = tool.resp.Status
             /\ tool.result.subscribed_topics = tool.resp.SubscribedTopics

\* a handler error came back as a structured error, after an earlier success
C21_Witness ==
    /\ Executed
    /\ tool.cause = "err_save_session"
    /\ ~tool.result.Success
    /\ tool.result.Code = "SPAWN_FAILED"
    /\ tool.result.err = "nil"
    /\ spawnedAgents # <<>>

\* C22: when spawn_agent is rejected for the spawn limit, the caller's
\* structured error differs by its code from the errors of the other spawn
\* failures (the agent cannot be loaded, the session store fails).
C22_SpawnLimitHasItsOwnCode ==
    (Executed /\ tool.cause = "err_spawn_limit") =>
       \A other \in {"err_load_agent", "err_save_session"} :
          tool.result.Code # ExecuteHandlerError(other).Code

\* C25: no goroutine holds the spawn-table lock while it calls the session
\* store or the bus, and none acquires a second lock while it holds the
\* spawn-table lock; hence the goroutines never deadlock on these locks: as
\* long as one of them has not finished, one of them can take its next step.
C25_LockDiscipline ==
    /\ \A g \in Goroutines :
          "spawnedAgentsMu" \in Held(g) =>
             /\ Held(g) = {"spawnedAgentsMu"}
             /\ Running(g) => NextOp(g).op \notin {"Enter", "Leave", "Lock", "RLock"}
    /\ (\E g \in Goroutines : Running(g)) => \E g \in Goroutines : CanStep(g)

\* one goroutine holds the table's write lock, another is inside a bus call,
\* and a third waits for the table
C25_Witness ==
    \E g1, g2, g3 \in Goroutines :
       /\ locks["spawnedAgentsMu"].writer = g1
       /\ locks["messageBus"].writer = g2
       /\ lk[g2].found
       /\ g3 \notin {g1, g2}
       /\ Running(g3)
       /\ NextOp(g3).on = "spawnedAgentsMu"
       /\ ~CanStep(g3)

\* C26: GetLoomDataDir returns an absolute path in every environment:
\* LOOM_DATA_DIR unset or empty, absolute, relative, "~/...", or "~", with the
\* home directory determinable or not.
C26_DataDirAlwaysAbsolute == pret.called => IsAbs(pret.path)

\* a branch blocked in the send on the semaphore channel
Waiting(b) == bpc[b] = "acquiring" /\ ~ChannelHasRoom

\* C27: when the capacity is at least the number of branches of the fork-join
\* (and nothing else holds a slot), no branch ever waits for the semaphore.
C27_NoWaitWhenCapacityCoversBranches ==
    (branches > 0 /\ capacity >= branches) => \A b \in Branches : ~Waiting(b)

\* all the branches of a fork-join are in their chat call at the same time
C27_Witness ==
    /\ branches = MaxBranches
    /\ capacity = branches
    /\ \A b \in Branches : bpc[b] = "chat"

\* C28: under fair scheduling and chat calls that terminate, every branch of a
\* fork-join eventually acquires the semaphore, runs its chat call, releases
\* and has a result, for any number of branches and any capacity >= 1.
C28_EveryBranchEventuallyDone ==
    \A b \in Branches :
       (bpc[b] = "launched") ~> (bpc[b] = "done" /\ bres[b] # "none")

\* three branches on two slots have all produced a result
C28_Witness ==
    /\ branches = 3
    /\ capacity = 2
    /\ \A b \in 1..3 : bpc[b] = "done" /\ bres[b] = "ok"

\* the cleanupSpawnedAgent call of goroutine c takes a step
CleanupActs(c) == cl[c].pc \in {"lookup", "cancel", "unsub"} /\ cl'[c] # cl[c]

\* C29: cleanupSpawnedAgent(S) affects only S: every other entry of the spawn
\* table, every other child's context, and every bus subscription of another
\* live child stay as they are, also when that child has the same sub_agent_id
\* and is subscribed to the same topic.
C29_CleanupTouchesOnlyItsChild ==
    [][\A c \in Cleaners :
          CleanupActs(c) =>
             /\ \A sid \in DOMAIN spawnedAgents \ {cl[c].target} :
                   /\ sid \in DOMAIN spawnedAgents'
                   /\ spawnedAgents'[sid] = spawnedAgents[sid]
             /\ ctxDone' \ ctxDone \subseteq {cl[c].target}
             /\ \A sub \in busSubs :
                   (sub.ID[1] # cl[c].target /\ sub.ID[1] \in DOMAIN spawnedAgents)
                      => sub \in busSubs']_vars

\* the session's entry has been inserted at some time
Tracked(sid) ==
    /\ sid \in DOMAIN sessionStore
    /\ \A t \in Threads :
          th[t].sessionID = sid => th[t].pc \notin {"subscribe", "track"}

\* goroutine c's cleanup found the entry of its target
FoundEntry(c) == cl[c].target # "" /\ cl[c].pc \in {"cancel", "unsub", "ret"}

\* C30: the cleanup of a child takes effect at most once: however the monitor's
\* idle-expiry cleanup, its cleanup on cancellation and
\* cleanupSpawnedAgentsByParent interleave on a session, the call that finds
\* the entry removes it in the same step, no other call has found it, and it
\* is never inserted again; a call that finds the entry absent returns and
\* changes nothing.
C30_CleanupTakesEffectOnce ==
    [][/\ \A c \in Cleaners :
             (cl[c].pc = "lookup" /\ cl'[c] # cl[c]) =>
                IF cl[c].target \in DOMAIN spawnedAgents
                THEN /\ cl[c].target \notin DOMAIN spawnedAgents'
                     /\ cl'[c].pc = "cancel"
                     /\ \A d \in Cleaners \ {c} :
                           ~(FoundEntry(d) /\ cl[d].target = cl[c].target)
                ELSE /\ cl'[c] = [NoCleanup EXCEPT !.pc = "ret"]
                     /\ UNCHANGED <<spawnedAgents, ctxDone, busSubs, sessionStore>>
       /\ \A sid \in SessionIds :
             (Tracked(sid) /\ sid \notin DOMAIN spawnedAgents)
                => sid \notin DOMAIN spawnedAgents']_vars

\* the monitor of s1 has removed s1 and is still cleaning up, and the parent's
\* cleanup of s1, its only child, has found the entry absent and returned
C30_Witness ==
    /\ cl["s1"].target = "s1"
    /\ cl["s1"].pc \in {"cancel", "unsub"}
    /\ "root" \in ended
    /\ toCleanup["root"] = {}
    /\ cl["root"] = [NoCleanup EXCEPT !.pc = "ret"]
    /\ monitor["s2"] = "none"
    /\ "s2" \notin DOMAIN sessionStore

\* C31: a SpawnSubAgent call that returns an error leaves the spawn table and
\* the bus subscriptions unchanged and starts no monitor: an error is returned
\* only from the validation, the limit check, the agent load or the session
\* save, and no step of a call up to and including these touches the table,
\* the bus or a monitor.
C31_FailedSpawnChangesNothing ==
    [][\A t \in Threads :
          th'[t] # th[t] =>
             /\ (th'[t].pc = "done" /\ th'[t].ret # "spawned") =>
                   th[t].pc \in {"idle", "limit", "load", "save"}
             /\ (th[t].pc \in {"idle", "limit", "load"}
                   \/ (th[t].pc = "save" /\ th'[t].pc = "done")) =>
                   UNCHANGED <<spawnedAgents, busSubs, monitor>>]_vars

\* a spawn with a topic has failed at SaveSession while its parent has a child
\* and the bus holds that child's subscription
C31_Witness ==
    \E t \in Threads :
       /\ th[t].pc = "done"
       /\ th[t].ret = "err_save_session"
       /\ th[t].req.AutoSubscribe # <<>>
       /\ DOMAIN spawnedAgents = {"s1"}
       /\ monitor["s2"] = "none"
       /\ \A sub \in busSubs : sub.ID[1] = "s1"

\* C32: no monitor outlives its child: once a child's entry has been removed
\* from the spawn table (by its own monitor, by cleanupSpawnedAgentsByParent,
\* or by a cleanup between the insert and the monitor's start), the child's
\* monitor eventually terminates, under fair scheduling.
C32_MonitorEndsAfterRemoval ==
    \A sid \in SessionIds :
       (Tracked(sid) /\ sid \notin DOMAIN spawnedAgents) ~> (monitor[sid] = "done")

\* the parent's cleanup removed s1 before the monitor of s1 was started, and
\* the monitor, started on the cancelled context, has terminated
C32_Witness ==
    /\ cl["root"].target = "s1"
    /\ FoundEntry("root")
    /\ \E t \in Threads : th[t].sessionID = "s1" /\ th[t].pc = "done"
    /\ monitor["s1"] = "done"

\* C33: the parent_session_id of every spawn-table entry refers to a session
\* that exists: a root session, or a session SpawnSubAgent has created.
C33_ParentOfEveryEntryExists ==
    \A sid \in DOMAIN spawnedAgents :
       spawnedAgents[sid].parentSessionID \in Roots \cup DOMAIN sessionStore

\* the depth of a session below its root, read off the saved sessions
RECURSIVE Depth(_)
Depth(sid) ==
    IF sid \notin DOMAIN sessionStore THEN 0
    ELSE 1 + Depth(sessionStore[sid].ParentSessionID)

\* C34: the spawn graph has bounded depth: no tracked child is deeper than the
\* depth cap below a root session (a spawn by a session at the cap is rejected).
C34_SpawnDepthBounded ==
    \A sid \in DOMAIN spawnedAgents : Depth(sid) <= MaxSpawnDepth

\* C35: shouldInvokeLLMReRanker returns false whenever no LLM provider is
\* configured or the scored list is empty, whatever the intent and the scores
\* are: the two checks come before the four gate conditions.
C35_NoProviderOrNoCandidatesIsFalse ==
    (gate.called /\ (rq.llmProvider = "nil" \/ rq.candidates = <<>>)) => ~gate.result

\* without a provider the gate returned false although the intent is unknown,
\* the top score is below 0.70 and the top two are close
C35_Witness ==
    /\ gate.called
    /\ ~gate.result
    /\ rq.llmProvider = "nil"
    /\ rq.intent = IntentUnknown
    /\ Len(rq.candidates) = 3
    /\ rq.candidates[1].score = 65
    /\ rq.candidates[2].score = 61

\* the gate is asked with a provider, a known intent and a non-empty list
GateDecidesByScores ==
    /\ gate.called
    /\ rq.llmProvider # "nil"
    /\ rq.intent # IntentUnknown
    /\ Len(rq.candidates) >= 1

\* C36 (as stated): with a known intent and a provider, a top score of
\* exactly 0.70 does not by itself trigger the reranker, a top-two gap of
\* exactly 0.20 does not trigger it while any smaller gap does, a candidate
\* scoring exactly 0.60 is not counted as strong, and the gap rule applies
\* only with at least two candidates.
C36_ThresholdsStrictAtBoundaries ==
    GateDecidesByScores =>
        gate.result =
            \/ rq.candidates[1].score < 70
            \/ Len(rq.candidates) >= 2
                  /\ rq.candidates[1].score - rq.candidates[2].score < 20
            \/ Cardinality({i \in 1..Len(rq.candidates) :
                               rq.candidates[i].score > 60}) >= 3

\* C36 (amended): as stated, except that a top-two gap of 0.20 triggers the
\* reranker when the float64 difference of the two scores is below
\* float64(0.20), as for 0.95 and 0.75, and does not when it is not, as for
\* 0.90 and 0.70.
C36_ThresholdsStrictUpToFloat64 ==
    GateDecidesByScores =>
        gate.result =
            \/ rq.candidates[1].score < 70
            \/ Len(rq.candidates) >= 2
                  /\ rq.candidates[1].score - rq.candidates[2].score < 20
            \/ TopTwoRoundBelow
            \/ Cardinality({i \in 1..Len(rq.candidates) :
                               rq.candidates[i].score > 60}) >= 3

\* the gate returned false for [0.90, 0.70, 0.60]: the gap is 0.20, the second score is
\* 0.70 and the third, 0.60, is not counted as strong
C36_Witness ==
    /\ GateDecidesByScores
    /\ ~gate.result
    /\ Len(rq.candidates) = 3
    /\ rq.candidates[1].score = 90
    /\ rq.candidates[2].score = 70
    /\ rq.candidates[3].score = 60

\* the branches that have logged `acquiring`, `acquired`, `released`
LoggedAcquiring == {b \in Launched : bpc[b] # "launched"}
LoggedAcquired == {b \in Launched : bpc[b] \in {"chat", "exit", "released", "done"}}
GaveBack == {b \in Launched : bpc[b] \in {"released", "done"}}

\* all n branches have logged `acquiring`, exactly C of them have logged
\* `acquired`, none has released, and C < n
SurplusState ==
    /\ branches > capacity
    /\ LoggedAcquiring = Launched
    /\ Cardinality(LoggedAcquired) = capacity
    /\ GaveBack = {}

\* C37: the semaphore does not serialize the launch of the branches: a
\* launched branch logs `acquiring` whatever the semaphore holds, and in a
\* fork-join of n branches with capacity C < n, once all n have logged
\* `acquiring`, C have logged `acquired` and none has released, the n - C
\* others are blocked on the send.
C37_LaunchNotSerialized ==
    /\ \A b \in Launched :
          bpc[b] = "launched" => ENABLED BranchLogAcquiring(b)
    /\ SurplusState =>
          /\ Cardinality({b \in Launched : Waiting(b)}) = branches - capacity
          /\ \A b \in Launched : Waiting(b) => ~ENABLED BranchAcquire(b)

\* three branches and two slots: all three have logged `acquiring`, two have
\* logged `acquired`, the third is blocked and nothing has been released
C37_Witness ==
    /\ SurplusState
    /\ branches = 3
    /\ capacity = 2
    /\ Cardinality({b \in Launched : Waiting(b)}) = 1
    /\ log = <<"acquired", "acquired">>

\* the tracked children of a parent
LiveChildren(p) ==
    {sid \in DOMAIN spawnedAgents : spawnedAgents[sid].parentSessionID = p}

\* C38: the spawn limit counts only the parent's own live children: a call
\* for P is rejected with the limit error exactly when P has the maximum of
\* tracked children at the check, whatever other parents have spawned, so
\* after one of P's children is cleaned up a later call for P passes.
C38_LimitCountsOwnLiveChildren ==
    [][\A t \in Threads :
          (th[t].pc = "limit" /\ th'[t] # th[t]) =>
             LET own == Cardinality(LiveChildren(th[t].req.ParentSessionID)) IN
             /\ th'[t].ret = "err_spawn_limit" <=> own >= maxSpawnsPerParent
             /\ th'[t].pc = "load" <=> own < maxSpawnsPerParent]_vars

\* the root was at the limit with s1; s1 was cleaned up, and the next call
\* for the root spawned s2
C38_Witness ==
    /\ Tracked("s1")
    /\ sessionStore["s1"].ParentSessionID = "root"
    /\ "s1" \notin DOMAIN spawnedAgents
    /\ LiveChildren("root") = {"s2"}
    /\ \E t \in Threads :
          /\ Spawned(t)
          /\ th[t].req.ParentSessionID = "root"
          /\ th[t].existingSpawns = 0

\* Execute is entered in this step
ExecuteEntered == tool.pc \in {"idle", "done"} /\ tool' # tool

\* the handler's SpawnSubAgent is entered in this step
HandlerEntered == th[ToolThread].pc = "idle" /\ th'[ToolThread].pc # "idle"

\* agent_id is missing, not a string, or the empty string
BadAgentId(agentID) == agentID.kind # "string" \/ agentID.value = ""

\* the handler is entered by a new invocation only, whose agent_id is a
\* non-empty string, and not again before that invocation has returned; an
\* invocation with another agent_id returns at once without touching the
\* server's state
HandlerOnlyForGoodAgentId ==
    /\ HandlerEntered =>
          /\ ExecuteEntered
          /\ tool'.pc = "calling"
          /\ ~BadAgentId(tool'.agent_id)
    /\ tool.pc = "calling" => ~HandlerEntered
    /\ (ExecuteEntered /\ BadAgentId(tool'.agent_id)) =>
          /\ tool'.pc = "done"
          /\ ~HandlerEntered
          /\ UNCHANGED <<spawnedAgents, sessionStore, busSubs, monitor, th>>

\* C39 (as stated): SpawnAgentTool.Execute calls the spawn handler at most
\* once per invocation and only when agent_id is a non-empty string: a
\* missing, non-string or empty agent_id yields an INVALID_AGENT_ID result
\* without invoking the handler, so the spawn table is unchanged.
C39_BadAgentIdIsInvalidAgentId ==
    [][/\ HandlerOnlyForGoodAgentId
       /\ (ExecuteEntered /\ BadAgentId(tool'.agent_id)) =>
             tool'.result.Code = "INVALID_AGENT_ID"]_vars

\* C39 (amended): as stated, for a tool that has a handler; without a handler
\* every invocation, whatever its agent_id, yields SPAWN_NOT_AVAILABLE.
C39_BadAgentIdNeverReachesHandler ==
    [][/\ HandlerOnlyForGoodAgentId
       /\ (ExecuteEntered /\ BadAgentId(tool'.agent_id)) =>
             tool'.result.Code = IF tool'.handler = "nil"
                                 THEN "SPAWN_NOT_AVAILABLE"
                                 ELSE "INVALID_AGENT_ID"
       /\ (ExecuteEntered /\ tool'.handler = "nil") =>
             tool'.result.Code = "SPAWN_NOT_AVAILABLE" /\ ~HandlerEntered]_vars

\* with one agent tracked, an invocation with a handler and the empty string
\* for agent_id has returned INVALID_AGENT_ID; the handler's goroutine is idle
C39_Witness ==
    /\ tool.pc = "done"
    /\ tool.handler = "server"
    /\ tool.agent_id = [kind |-> "string", value |-> ""]
    /\ tool.result.Code = "INVALID_AGENT_ID"
    /\ th[ToolThread].pc = "idle"
    /\ DOMAIN spawnedAgents = {"s1"}

(***************************************************************************)
(* Properties of the code-fence stripping.                                 *)
(***************************************************************************)
\* the positions of the fences in the response
FencePositions == Occurrences(response, Fence)

\* the response is prose, an opening fence, a JSON object, a closing fence and
\* prose: the words before the first fence name no fence, the first fence after
\* it is a bare ```, and the text between the two is the object with white
\* space around it; i and j are the positions of the two fences
FencedObject(i, j) ==
    /\ i \in FencePositions
    /\ j \in FencePositions
    /\ i < j
    /\ \A k \in FencePositions : k >= i /\ (k > i => k >= j)
    /\ response[j] = Fence
    /\ \A k \in 1..(i - 1) : response[k] \in {Word, Space}
    /\ \A k \in (j + 1)..Len(response) : response[k] # JsonObject
    /\ TrimSpace(SubSeq(response, i + 1, j - 1)) = <<JsonObject>>

\* C40: for every LLM response that consists of optional prose, an opening
\* fence (```json or ```), a JSON object, a closing fence and optional prose,
\* the text handed to the JSON parser is the content between the first
\* opening fence and the next closing fence, trimmed of surrounding white
\* space; a response without fences is parsed as it is (the parser skips
\* surrounding white space).
C40_ParserGetsFirstFencedBlock ==
    unmarshal.called =>
        /\ \A i, j \in 1..Len(response) :
              FencedObject(i, j) =>
                 unmarshal.text = TrimSpace(SubSeq(response, i + 1, j - 1))
        /\ FencePositions = {} => unmarshal.text = TrimSpace(response)
====
